---- MODULE Spec2Model ----
(***************************************************************************)
(* The configuration service of hypr-ai-course.                           *)
(*                                                                         *)
(* Part A: the Express/pg service of module1 (keyed configuration rows):   *)
(*   the two tables with their constraints, the ApplicationController and  *)
(*   ConfigurationController handlers and the route validation chains.     *)
(* Part B: the document-shaped service behind /api/v1 with its TypeScript  *)
(*   client and the ConfigDetail editor of the admin UI.                   *)
(***************************************************************************)
EXTENDS Integers, Sequences, FiniteSets, TLC

(***************************************************************************)
(* Bounds of the model.                                                    *)
(***************************************************************************)
\* largest value applications_id_seq hands out
MaxAppSeq == 2
\* largest value configurations_id_seq hands out
MaxCfgSeq == 2
\* largest value of the logical clock behind CURRENT_TIMESTAMP
MaxClock == 1
\* ConfigurationController.create calls suspended between their two queries
MaxPending == 1
\* query() calls in progress at once
MaxQueries == 22
\* the time followed after a request starts, and the step it advances by (ms)
MaxElapsed == 40000
TickMs == 10000

(***************************************************************************)
(* Program constants.                                                      *)
(***************************************************************************)
\* new Pool({ max: 20 })
PoolMax == 20
\* this.timeout = options.timeout || 30000
DefaultTimeout == 30000
\* isLength({ min: 1, max: 255 }) of name and key, VARCHAR(255)
MaxNameLen == 255
\* isLength({ min: 1, max: 50 }) of environment, VARCHAR(50)
MaxEnvLen == 50

(***************************************************************************)
(* JSON / JavaScript values as they arrive in a request body.              *)
(***************************************************************************)
Undefined == [t |-> "undefined", v |-> ""]
Null == [t |-> "null", v |-> ""]
Num7 == [t |-> "number", v |-> "7"]
Str(s) == [t |-> "string", v |-> s]

\* express-validator isString()
isString(x) == x.t = "string"
\* express-validator isLength({min, max}) on a string value
isLength(x, min, max) == Len(x.v) >= min /\ Len(x.v) <= max
\* express-validator isInt({ min: 1 }) on an id: ids are modelled as integers,
\* 0 standing for every value the validator refuses ("0", "-1", "abc")
isIntMin1(id) == id >= 1
\* express-validator optional(): the chain is skipped for an undefined value
optional(x, ok) == x = Undefined \/ ok

\* pg prepareValue: undefined and null are both sent as SQL NULL
toSql(x) == IF x = Undefined THEN Null ELSE x
\* a statement written without COALESCE: SET column = $n
COALESCE_Overwrite(p, old) == p

\* SQL COALESCE(param, column)
COALESCE(p, old) == IF p = Null THEN old ELSE p

(***************************************************************************)
(* Inputs.                                                                 *)
(***************************************************************************)
\* request bodies of the application routes
NameInputs == {Undefined, Str(""), Str("a"), Str("b")}
DescInputs == {Undefined, Num7, Str("d")}
AppIds == 0..MaxAppSeq
\* request bodies of the configuration routes
CfgAppNames == {Str("a")}
CfgCreateKeys == {Str("k"), Str("m")}
CfgCreateValues == {Str("v")}
CfgCreateEnvs == {Str("dev")}
CfgUpdateKeys == {Undefined, Str("m")}
CfgUpdateValues == {Undefined}
CfgUpdateEnvs == {Undefined, Str("prod")}
CfgIds == 0..MaxCfgSeq

VARIABLES
  applications,    \* rows of table applications
  appSeq,          \* last value of applications_id_seq
  configurations,  \* rows of table configurations
  cfgSeq,          \* last value of configurations_id_seq
  now,             \* CURRENT_TIMESTAMP
  pending,         \* ConfigurationController.create calls between their two queries
  resp,            \* the request handled last and the response sent to it
  queried,         \* the statements the latest handler step passed to query()
  racer            \* two create requests in flight at once (specification SpecRace)

keyedVars == <<applications, appSeq, configurations, cfgSeq, now, pending, resp,
               queried, racer>>

\* Part B: the /api/v1 service (tables applications and configurations of its
\* schema), the latest call made through ConfigClient, and the ConfigDetail
\* element with the call it is waiting on
VARIABLES
  svcApplications,   \* rows of applications: [id, name]
  svcConfigurations, \* rows of configurations: [application_id, config]
  deleted,           \* ids whose application was deleted and not created again
  last,              \* the latest ConfigClient call and its ApiResponse
  configDetail,      \* the fields of the ConfigDetail element
  awaiting           \* the ConfigClient promise the element awaits
docVars == <<svcApplications, svcConfigurations, deleted, last,
             configDetail, awaiting>>

\* database.ts: the pool and the query() calls in progress
VARIABLES
  connecting,        \* query() calls awaiting pool.connect()
  running,           \* query() calls inside try, awaiting client.query()
  checkedOut,        \* clients the pool has handed out and not got back
  lastQuery          \* how the query() call that ended last ended
poolVars == <<connecting, running, checkedOut, lastQuery>>

\* ConfigClient: the request in progress, the time since it started, and the
\* client's timeout
VARIABLES
  pendingCall,       \* the latest request() pendingCall: its stage, timer and outcome
  elapsed,           \* milliseconds since that pendingCall started
  timeout            \* this.timeout
clientVars == <<pendingCall, elapsed, timeout>>

\* CreateAppForm: the element, the createApplication calls it awaits, and the
\* handler that ran last
VARIABLES
  createForm,        \* the fields of the CreateAppForm element and its rendering
  creating,          \* api.createApplication promises not settled yet
  lastEvent          \* the handler that ran last, the loadingState it found, its events
formVars == <<createForm, creating, lastEvent>>

\* ConfigApp: the element, the ids the service holds, and the getApplications
\* call made when the element was connected
VARIABLES
  configApp,         \* the fields of the ConfigApp element and its rendering
  appIds,            \* ids of the applications the service holds
  listCall           \* the getApplications call of loadApplications
appVars == <<configApp, appIds, listCall>>

otherVars == <<poolVars, clientVars, formVars, appVars>>

vars == <<keyedVars, docVars, otherVars>>

NoRow == [id |-> 0]
NoReq == [none |-> TRUE]
Idle == [busy |-> FALSE]
Racers == {1, 2}
NoRacer == [pc |-> "none"]

\* What the handler saw and sent: the store's error code caught ("" when nothing was
\* thrown), the HTTP status, the error text and the row of the JSON body.
Reply(op, req, code, status, error, row) ==
  [op |-> op, req |-> req, code |-> code, status |-> status, error |-> error,
   row |-> row]

(***************************************************************************)
(* The store: tables, constraints, statements.                             *)
(***************************************************************************)
\* UNIQUE (name) of applications
NameTaken(apps, name, exceptId) ==
  \E r \in apps : r.name = name /\ r.id # exceptId

\* an INSERT into a table whose name column lost its UNIQUE constraint
InsertApplication_NoUnique(apps, seq, name, description, t) ==
  LET row == [id |-> seq + 1, name |-> name.v, description |-> toSql(description),
              created_at |-> t, updated_at |-> t]
  IN [code |-> "", rows |-> apps \cup {row}, row |-> row]

\* INSERT INTO applications (name, description) VALUES ($1, $2) RETURNING *
\* The id default (nextval) is evaluated before the unique index is checked.
InsertApplication(apps, seq, name, description, t) ==
  LET row == [id |-> seq + 1, name |-> name.v, description |-> toSql(description),
              created_at |-> t, updated_at |-> t]
  IN IF NameTaken(apps, name.v, 0)
     THEN [code |-> "23505", rows |-> apps, row |-> NoRow]
     ELSE [code |-> "", rows |-> apps \cup {row}, row |-> row]

\* an UPDATE whose rows stay written when the unique index refuses the statement
UpdateApplication_NoRollback(apps, id, name, description, t) ==
  IF ~ \E r \in apps : r.id = id
  THEN [code |-> "", rows |-> apps, row |-> NoRow]
  ELSE LET old == CHOOSE r \in apps : r.id = id
           newName == COALESCE(toSql(name), Str(old.name)).v
           row == [old EXCEPT !.name = newName,
                              !.description = COALESCE(toSql(description), old.description),
                              !.updated_at = t]
       IN [code |-> IF NameTaken(apps, newName, id) THEN "23505" ELSE "",
           rows |-> (apps \ {old}) \cup {row},
           row |-> IF NameTaken(apps, newName, id) THEN NoRow ELSE row]

\* UPDATE applications SET name = COALESCE($1, name),
\*   description = COALESCE($2, description), updated_at = CURRENT_TIMESTAMP
\*   WHERE id = $3 RETURNING *
UpdateApplication(apps, id, name, description, t) ==
  IF ~ \E r \in apps : r.id = id
  THEN [code |-> "", rows |-> apps, row |-> NoRow]
  ELSE LET old == CHOOSE r \in apps : r.id = id
           newName == COALESCE(toSql(name), Str(old.name)).v
           row == [old EXCEPT !.name = newName,
                              !.description = COALESCE(toSql(description), old.description),
                              !.updated_at = t]
       IN IF NameTaken(apps, newName, id)
          THEN [code |-> "23505", rows |-> apps, row |-> NoRow]
          ELSE [code |-> "", rows |-> (apps \ {old}) \cup {row}, row |-> row]

\* a SELECT without its WHERE clause: the first row of the table
SelectApplication_NoWhere(apps, id) ==
  IF apps # {}
  THEN CHOOSE r \in apps : \A q \in apps : r.id <= q.id
  ELSE NoRow

\* SELECT * FROM applications WHERE id = $1
SelectApplication(apps, id) ==
  IF \E r \in apps : r.id = id
  THEN CHOOSE r \in apps : r.id = id
  ELSE NoRow

(***************************************************************************)
(* ApplicationController.                                                  *)
(***************************************************************************)
createApplicationValidation(name, description) ==
  /\ isString(name) /\ isLength(name, 1, MaxNameLen)
  /\ optional(description, isString(description))

updateApplicationValidation(id, name, description) ==
  /\ isIntMin1(id)
  /\ optional(name, isString(name) /\ isLength(name, 1, MaxNameLen))
  /\ optional(description, isString(description))

getApplicationValidation(id) == isIntMin1(id)

\* a catch block without the '23505' branch
AppErrorStatus_NoConflict(code) == 500

\* catch block of ApplicationController.create and update
AppErrorStatus(code) == IF code = "23505" THEN 409 ELSE 500
AppErrorText(code) ==
  IF code = "23505" THEN "Application with this name already exists"
  ELSE "Internal server error"

\* ApplicationController.create run on a table: the table and the sequence it
\* leaves and the response it sends
AppCreateResult(apps, seq, name, description, t) ==
  LET req == [name |-> name, description |-> description] IN
  IF ~ createApplicationValidation(name, description)
  THEN [rows |-> apps, seq |-> seq, queries |-> <<>>,
        reply |-> Reply("app.create", req, "", 400, "Validation failed", NoRow)]
  ELSE LET r == InsertApplication(apps, seq, name, description, t) IN
       [rows |-> r.rows, seq |-> seq + 1, queries |-> <<"INSERT INTO applications">>,
        reply |-> IF r.code = ""
                  THEN Reply("app.create", req, "", 201, "", r.row)
                  ELSE Reply("app.create", req, r.code, AppErrorStatus(r.code),
                             AppErrorText(r.code), NoRow)]

AppCreate(name, description) ==
  /\ createApplicationValidation(name, description) => appSeq < MaxAppSeq
  /\ LET out == AppCreateResult(applications, appSeq, name, description, now) IN
     /\ applications' = out.rows
     /\ appSeq' = out.seq
     /\ resp' = out.reply
     /\ queried' = out.queries
  /\ UNCHANGED <<configurations, cfgSeq, now, pending, racer, docVars, otherVars>>

AppUpdate(id, name, description) ==
  LET req == [id |-> id, name |-> name, description |-> description] IN
  IF ~ updateApplicationValidation(id, name, description)
  THEN /\ resp' = Reply("app.update", req, "", 400, "Validation failed", NoRow)
       /\ queried' = <<>>
       /\ UNCHANGED <<applications, appSeq, configurations, cfgSeq, now, pending, racer, docVars, otherVars>>
  ELSE LET r == UpdateApplication(applications, id, name, description, now) IN
       /\ applications' = r.rows
       /\ queried' = <<"UPDATE applications">>
       /\ resp' = IF r.code # ""
                  THEN Reply("app.update", req, r.code, AppErrorStatus(r.code),
                             AppErrorText(r.code), NoRow)
                  ELSE IF r.row = NoRow
                  THEN Reply("app.update", req, "", 404, "Application not found", NoRow)
                  ELSE Reply("app.update", req, "", 200, "", r.row)
       /\ UNCHANGED <<appSeq, configurations, cfgSeq, now, pending, racer, docVars, otherVars>>

\* a getById that runs its SELECT before it looks at the validation result
AppGetById_QueryFirst(id) ==
  LET req == [id |-> id] IN
  /\ resp' = IF ~ getApplicationValidation(id)
             THEN Reply("app.getById", req, "", 400, "Validation failed", NoRow)
             ELSE IF SelectApplication(applications, id) = NoRow
             THEN Reply("app.getById", req, "", 404, "Application not found", NoRow)
             ELSE Reply("app.getById", req, "", 200, "", SelectApplication(applications, id))
  /\ queried' = <<"SELECT * FROM applications">>
  /\ UNCHANGED <<applications, appSeq, configurations, cfgSeq, now, pending, racer, docVars, otherVars>>

AppGetById(id) ==
  LET req == [id |-> id] IN
  /\ queried' = IF getApplicationValidation(id)
                THEN <<"SELECT * FROM applications">> ELSE <<>>
  /\ resp' = IF ~ getApplicationValidation(id)
             THEN Reply("app.getById", req, "", 400, "Validation failed", NoRow)
             ELSE IF SelectApplication(applications, id) = NoRow
             THEN Reply("app.getById", req, "", 404, "Application not found", NoRow)
             ELSE Reply("app.getById", req, "", 200, "", SelectApplication(applications, id))
  /\ UNCHANGED <<applications, appSeq, configurations, cfgSeq, now, pending, racer, docVars, otherVars>>

(***************************************************************************)
(* The configurations table.                                               *)
(***************************************************************************)
AppExists(apps, id) == \E a \in apps : a.id = id

\* a configurations table created without its UNIQUE constraint
TripleTaken_NoConstraint(cfgs, application_id, key, environment, exceptId) == FALSE

\* UNIQUE (application_id, key, environment)
TripleTaken(cfgs, application_id, key, environment, exceptId) ==
  \E c \in cfgs : /\ c.application_id = application_id
                  /\ c.key = key
                  /\ c.environment = environment
                  /\ c.id # exceptId

\* INSERT INTO configurations (application_id, key, value, environment)
\*   VALUES ($1, $2, $3, $4) RETURNING *
\* The unique index is checked as the row goes in, the foreign key when the
\* statement ends; a statement that fails leaves the table as it was.
InsertConfiguration(cfgs, apps, seq, application_id, key, value, environment, t) ==
  LET row == [id |-> seq + 1, application_id |-> application_id, key |-> key.v,
              value |-> toSql(value), environment |-> environment.v,
              created_at |-> t, updated_at |-> t]
  IN IF TripleTaken(cfgs, application_id, key.v, environment.v, 0)
     THEN [code |-> "23505", rows |-> cfgs, row |-> NoRow]
     ELSE IF ~ AppExists(apps, application_id)
     THEN [code |-> "23503", rows |-> cfgs, row |-> NoRow]
     ELSE [code |-> "", rows |-> cfgs \cup {row}, row |-> row]

\* UPDATE configurations SET key = COALESCE($1, key), value = COALESCE($2, value),
\*   environment = COALESCE($3, environment), updated_at = CURRENT_TIMESTAMP
\*   WHERE id = $4 RETURNING *
UpdateConfiguration(cfgs, id, key, value, environment, t) ==
  IF ~ \E c \in cfgs : c.id = id
  THEN [code |-> "", rows |-> cfgs, row |-> NoRow]
  ELSE LET old == CHOOSE c \in cfgs : c.id = id
           newKey == COALESCE(toSql(key), Str(old.key)).v
           newEnv == COALESCE(toSql(environment), Str(old.environment)).v
           row == [old EXCEPT !.key = newKey,
                              !.value = COALESCE(toSql(value), old.value),
                              !.environment = newEnv,
                              !.updated_at = t]
       IN IF TripleTaken(cfgs, old.application_id, newKey, newEnv, id)
          THEN [code |-> "23505", rows |-> cfgs, row |-> NoRow]
          ELSE [code |-> "", rows |-> (cfgs \ {old}) \cup {row}, row |-> row]

\* SELECT c.*, a.name as application_name FROM configurations c
\*   JOIN applications a ON c.application_id = a.id WHERE c.id = $1
SelectConfigurationJoin(cfgs, apps, id) ==
  LET hit == {c \in cfgs : c.id = id /\ AppExists(apps, c.application_id)}
  IN IF hit = {} THEN NoRow
     ELSE LET c == CHOOSE x \in hit : TRUE
              a == CHOOSE x \in apps : x.id = c.application_id
          IN [id |-> c.id, application_id |-> c.application_id, key |-> c.key,
              value |-> c.value, environment |-> c.environment,
              created_at |-> c.created_at, updated_at |-> c.updated_at,
              application_name |-> a.name]

\* DELETE FROM applications WHERE id = $1, with
\* configurations.application_id REFERENCES applications(id) ON DELETE CASCADE
DeleteCascade(cfgs, id) == {c \in cfgs : c.application_id # id}

(***************************************************************************)
(* ConfigurationController.                                                *)
(***************************************************************************)
createConfigurationValidation(application_id, key, value, environment) ==
  /\ isIntMin1(application_id)
  /\ isString(key) /\ isLength(key, 1, MaxNameLen)
  /\ optional(value, isString(value))
  /\ isString(environment) /\ isLength(environment, 1, MaxEnvLen)

updateConfigurationValidation(id, key, value, environment) ==
  /\ isIntMin1(id)
  /\ optional(key, isString(key) /\ isLength(key, 1, MaxNameLen))
  /\ optional(value, isString(value))
  /\ optional(environment, isString(environment) /\ isLength(environment, 1, MaxEnvLen))

getConfigurationValidation(id) == isIntMin1(id)

\* a catch block without the '23503' branch
CfgCreateErrorStatus_NoForeignKey(code) == IF code = "23505" THEN 409 ELSE 500

\* catch block of ConfigurationController.create
CfgCreateErrorStatus(code) ==
  IF code = "23505" THEN 409 ELSE IF code = "23503" THEN 404 ELSE 500
CfgCreateErrorText(code) ==
  IF code = "23505"
  THEN "Configuration with this key and environment already exists for this application"
  ELSE IF code = "23503" THEN "Application not found"
  ELSE "Internal server error"

\* catch block of ConfigurationController.update
CfgUpdateErrorStatus(code) == IF code = "23505" THEN 409 ELSE 500
CfgUpdateErrorText(code) ==
  IF code = "23505"
  THEN "Configuration with this key and environment already exists for this application"
  ELSE "Internal server error"

\* ConfigurationController.create up to its first await: validation, then
\* SELECT id FROM applications WHERE id = $1. go: the handler goes on to the INSERT
CfgCreateCheckResult(apps, req) ==
  IF ~ createConfigurationValidation(req.application_id, req.key, req.value,
                                     req.environment)
  THEN [go |-> FALSE, queries |-> <<>>,
        reply |-> Reply("cfg.create", req, "", 400, "Validation failed", NoRow)]
  ELSE IF ~ AppExists(apps, req.application_id)
  THEN [go |-> FALSE, queries |-> <<"SELECT id FROM applications">>,
        reply |-> Reply("cfg.create", req, "", 404, "Application not found", NoRow)]
  ELSE [go |-> TRUE, queries |-> <<"SELECT id FROM applications">>,
        reply |-> Reply("cfg.create.await", req, "", 0, "", NoRow)]

\* ConfigurationController.create from its second query on: the INSERT, the
\* response, the catch block
CfgCreateInsertResult(cfgs, apps, seq, req, t) ==
  LET r == InsertConfiguration(cfgs, apps, seq, req.application_id, req.key,
                               req.value, req.environment, t)
  IN [rows |-> r.rows, seq |-> seq + 1, queries |-> <<"INSERT INTO configurations">>,
      reply |-> IF r.code = ""
                THEN Reply("cfg.create", req, "", 201, "", r.row)
                ELSE Reply("cfg.create", req, r.code, CfgCreateErrorStatus(r.code),
                           CfgCreateErrorText(r.code), NoRow)]

CfgCreateCheck(s, application_id, key, value, environment) ==
  LET req == [application_id |-> application_id, key |-> key, value |-> value,
              environment |-> environment]
      out == CfgCreateCheckResult(applications, req) IN
  /\ ~ pending[s].busy
  /\ resp' = out.reply
  /\ queried' = out.queries
  /\ pending' = IF out.go THEN [pending EXCEPT ![s] =
                               [busy |-> TRUE, op |-> "cfg.create", req |-> req]]
                ELSE pending
  /\ UNCHANGED <<applications, appSeq, configurations, cfgSeq, now, racer, docVars, otherVars>>

CfgCreateInsert(s) ==
  /\ pending[s].busy /\ pending[s].op = "cfg.create"
  /\ cfgSeq < MaxCfgSeq
  /\ LET out == CfgCreateInsertResult(configurations, applications, cfgSeq,
                                      pending[s].req, now)
     IN /\ configurations' = out.rows
        /\ cfgSeq' = out.seq
        /\ resp' = out.reply
        /\ queried' = out.queries
  /\ pending' = [pending EXCEPT ![s] = Idle]
  /\ UNCHANGED <<applications, appSeq, now, racer, docVars, otherVars>>

CfgUpdate(id, key, value, environment) ==
  LET req == [id |-> id, key |-> key, value |-> value, environment |-> environment] IN
  IF ~ updateConfigurationValidation(id, key, value, environment)
  THEN /\ resp' = Reply("cfg.update", req, "", 400, "Validation failed", NoRow)
       /\ queried' = <<>>
       /\ UNCHANGED <<applications, appSeq, configurations, cfgSeq, now, pending, racer, docVars, otherVars>>
  ELSE LET r == UpdateConfiguration(configurations, id, key, value, environment, now) IN
       /\ configurations' = r.rows
       /\ queried' = <<"UPDATE configurations">>
       /\ resp' = IF r.code # ""
                  THEN Reply("cfg.update", req, r.code, CfgUpdateErrorStatus(r.code),
                             CfgUpdateErrorText(r.code), NoRow)
                  ELSE IF r.row = NoRow
                  THEN Reply("cfg.update", req, "", 404, "Configuration not found", NoRow)
                  ELSE Reply("cfg.update", req, "", 200, "", r.row)
       /\ UNCHANGED <<applications, appSeq, cfgSeq, now, pending, racer, docVars, otherVars>>

\* a getById that sends nothing when it finds no row
CfgGetById_Silent(id) ==
  LET req == [id |-> id]
      row == SelectConfigurationJoin(configurations, applications, id) IN
  /\ queried' = IF getConfigurationValidation(id)
                THEN <<"SELECT c.* FROM configurations c JOIN applications a">> ELSE <<>>
  /\ resp' = IF ~ getConfigurationValidation(id)
             THEN Reply("cfg.getById", req, "", 400, "Validation failed", NoRow)
             ELSE IF row = NoRow
             THEN Reply("cfg.getById", req, "", 0, "", NoRow)
             ELSE Reply("cfg.getById", req, "", 200, "", row)
  /\ UNCHANGED <<applications, appSeq, configurations, cfgSeq, now, pending, racer, docVars, otherVars>>

CfgGetById(id) ==
  LET req == [id |-> id]
      row == SelectConfigurationJoin(configurations, applications, id) IN
  /\ queried' = IF getConfigurationValidation(id)
                THEN <<"SELECT c.* FROM configurations c JOIN applications a">> ELSE <<>>
  /\ resp' = IF ~ getConfigurationValidation(id)
             THEN Reply("cfg.getById", req, "", 400, "Validation failed", NoRow)
             ELSE IF row = NoRow
             THEN Reply("cfg.getById", req, "", 404, "Configuration not found", NoRow)
             ELSE Reply("cfg.getById", req, "", 200, "", row)
  /\ UNCHANGED <<applications, appSeq, configurations, cfgSeq, now, pending, racer, docVars, otherVars>>

\* A row of applications is deleted by an SQL client of the same database
\* (the service has no DELETE route); the foreign key cascades.
DeleteApplication(id) ==
  /\ AppExists(applications, id)
  /\ applications' = {a \in applications : a.id # id}
  /\ configurations' = DeleteCascade(configurations, id)
  /\ resp' = Reply("sql.delete", [id |-> id], "", 0, "", NoRow)
  /\ queried' = <<>>
  /\ UNCHANGED <<appSeq, cfgSeq, now, pending, racer, docVars, otherVars>>

\* CURRENT_TIMESTAMP advances
Tick ==
  /\ now < MaxClock
  /\ now' = now + 1
  /\ resp' = Reply("tick", NoReq, "", 0, "", NoRow)
  /\ queried' = <<>>
  /\ UNCHANGED <<applications, appSeq, configurations, cfgSeq, pending, racer, docVars, otherVars>>


(***************************************************************************)
(* Part B.  JSON values and JSON text.                                     *)
(*                                                                         *)
(* A value is a record [t, v]; an object keeps its members in insertion    *)
(* order as <<key, value>> pairs.  A text is a sequence of tokens: what    *)
(* JSON.parse sees once insignificant white space is dropped.              *)
(***************************************************************************)
JNull == [t |-> "null", v |-> <<>>]
JNum(n) == [t |-> "number", v |-> <<n>>]
JStr(s) == [t |-> "string", v |-> <<s>>]
JArr(elems) == [t |-> "array", v |-> elems]
JObj(members) == [t |-> "object", v |-> members]
\* the JavaScript value undefined (never the result of JSON.parse)
JUndefined == [t |-> "undefined", v |-> <<>>]

Punct(c) == [t |-> "punct", s |-> c]
NumTok(n) == [t |-> "number", s |-> ToString(n)]
StrTok(s) == [t |-> "string", s |-> s]
NullTok == [t |-> "literal", s |-> "null"]
Digits == 0..9
NumOf(tok) == CHOOSE n \in Digits : ToString(n) = tok.s

\* obj[key] = val on an object's members: an existing key keeps its place
SetMember(members, key, val) ==
  IF \E i \in 1..Len(members) : members[i][1] = key
  THEN [i \in 1..Len(members) |->
          IF members[i][1] = key THEN <<key, val>> ELSE members[i]]
  ELSE Append(members, <<key, val>>)

HasMember(x, key) ==
  x.t = "object" /\ \E i \in 1..Len(x.v) : x.v[i][1] = key
\* x[key] of a parsed value (x.key): undefined when x has no such member
Member(x, key) ==
  IF HasMember(x, key)
  THEN x.v[CHOOSE i \in 1..Len(x.v) : x.v[i][1] = key][2]
  ELSE JUndefined

SyntaxError == [ok |-> FALSE, val |-> JUndefined, rest |-> <<>>]

RECURSIVE ParseValue(_)
RECURSIVE ParseElements(_, _, _)
RECURSIVE ParseMembers(_, _, _)
\* the elements of an array after "[" (first) or after a ","
ParseElements(ts, acc, first) ==
  IF ts = <<>> THEN SyntaxError
  ELSE IF first /\ Head(ts) = Punct("]")
  THEN [ok |-> TRUE, val |-> JArr(acc), rest |-> Tail(ts)]
  ELSE LET e == ParseValue(ts)
       IN IF ~ e.ok \/ e.rest = <<>> THEN SyntaxError
          ELSE IF Head(e.rest) = Punct("]")
          THEN [ok |-> TRUE, val |-> JArr(Append(acc, e.val)), rest |-> Tail(e.rest)]
          ELSE IF Head(e.rest) = Punct(",")
          THEN ParseElements(Tail(e.rest), Append(acc, e.val), FALSE)
          ELSE SyntaxError

\* the members of an object after "{" (first) or after a ","
ParseMembers(ts, acc, first) ==
  IF ts = <<>> THEN SyntaxError
  ELSE IF first /\ Head(ts) = Punct("}")
  THEN [ok |-> TRUE, val |-> JObj(acc), rest |-> Tail(ts)]
  ELSE IF Len(ts) < 3 \/ ts[1].t # "string" \/ ts[2] # Punct(":")
  THEN SyntaxError
  ELSE LET m == ParseValue(SubSeq(ts, 3, Len(ts)))
       IN IF ~ m.ok \/ m.rest = <<>> THEN SyntaxError
          ELSE IF Head(m.rest) = Punct("}")
          THEN [ok |-> TRUE, val |-> JObj(SetMember(acc, ts[1].s, m.val)),
                rest |-> Tail(m.rest)]
          ELSE IF Head(m.rest) = Punct(",")
          THEN ParseMembers(Tail(m.rest), SetMember(acc, ts[1].s, m.val), FALSE)
          ELSE SyntaxError

ParseValue(ts) ==
  IF ts = <<>> THEN SyntaxError
  ELSE LET h == Head(ts)
       IN IF h = NullTok THEN [ok |-> TRUE, val |-> JNull, rest |-> Tail(ts)]
          ELSE IF h.t = "number"
          THEN [ok |-> TRUE, val |-> JNum(NumOf(h)), rest |-> Tail(ts)]
          ELSE IF h.t = "string"
          THEN [ok |-> TRUE, val |-> JStr(h.s), rest |-> Tail(ts)]
          ELSE IF h = Punct("[") THEN ParseElements(Tail(ts), <<>>, TRUE)
          ELSE IF h = Punct("{") THEN ParseMembers(Tail(ts), <<>>, TRUE)
          ELSE SyntaxError

\* JSON.parse(text): ok is FALSE where JSON.parse throws a SyntaxError
JSONparse(text) ==
  LET r == ParseValue(text)
  IN IF r.ok /\ r.rest = <<>>
     THEN [ok |-> TRUE, val |-> r.val]
     ELSE [ok |-> FALSE, val |-> JUndefined]

RECURSIVE JSONstringify(_)
RECURSIVE StringifyElements(_, _)
RECURSIVE StringifyMembers(_, _)
StringifyElements(elems, i) ==
  IF i > Len(elems) THEN <<>>
  ELSE (IF i > 1 THEN <<Punct(",")>> ELSE <<>>)
       \o JSONstringify(IF elems[i].t = "undefined" THEN JNull ELSE elems[i])
       \o StringifyElements(elems, i + 1)

\* members whose value is undefined are left out
StringifyMembers(members, first) ==
  IF members = <<>> THEN <<>>
  ELSE LET m == Head(members)
       IN IF m[2].t = "undefined" THEN StringifyMembers(Tail(members), first)
          ELSE (IF first THEN <<>> ELSE <<Punct(",")>>)
               \o <<StrTok(m[1]), Punct(":")>> \o JSONstringify(m[2])
               \o StringifyMembers(Tail(members), FALSE)

\* JSON.stringify(x) and JSON.stringify(x, null, 2), which differ in white
\* space only; JSON.stringify(undefined) is undefined, here the empty text
JSONstringify(x) ==
  CASE x.t = "null" -> <<NullTok>>
    [] x.t = "number" -> <<NumTok(x.v[1])>>
    [] x.t = "string" -> <<StrTok(x.v[1])>>
    [] x.t = "array" -> <<Punct("[")>> \o StringifyElements(x.v, 1) \o <<Punct("]")>>
    [] x.t = "object" -> <<Punct("{")>> \o StringifyMembers(x.v, TRUE) \o <<Punct("}")>>
    [] OTHER -> <<>>

(***************************************************************************)
(* Part B.  The service behind /api/v1.                                    *)
(***************************************************************************)
\* ids are opaque 26-character tokens; two of them stand for all
DocIds == {"01A", "01B"}
DocNames == {"x", "y"}

Obj0 == JObj(<<>>)
ObjA == JObj(<< <<"a", JNum(1)>> >>)
ObjB == JObj(<< <<"b", JNum(2)>> >>)
\* what a caller may put under "config": objects, and values that are not
DocValues == {ObjA, ObjB, JArr(<<JNum(1)>>), JNum(7), JNull, JUndefined}

Detail(msg) == JObj(<< <<"detail", JStr(msg)>> >>)
ApplicationJson(a) == JObj(<< <<"id", JStr(a.id)>>, <<"name", JStr(a.name)>> >>)
ConfigurationJson(row) ==
  JObj(<< <<"application_id", JStr(row.application_id)>>, <<"config", row.config>> >>)

\* an HTTP response that reached the caller
HttpResponse(status, text) ==
  [threw |-> FALSE, name |-> "", message |-> "", status |-> status, body |-> text]
HttpJson(status, value) == HttpResponse(status, JSONstringify(value))
\* what a handler hands back: the response and the two tables after it
SvcOut(response, apps, cfgs) == [response |-> response, apps |-> apps, cfgs |-> cfgs]

SvcHasApplication(apps, id) == \E a \in apps : a.id = id
SvcHasConfiguration(cfgs, id) == \E c \in cfgs : c.application_id = id
SvcConfigurationOf(cfgs, id) == CHOOSE c \in cfgs : c.application_id = id
\* a configurations table whose foreign key lost its ON DELETE CASCADE
SvcCascade_NoCascade(cfgs, id) == cfgs

\* REFERENCES applications(id) ON DELETE CASCADE
SvcCascade(cfgs, id) == {c \in cfgs : c.application_id # id}

\* POST /applications: 201 + Application, 400, 409; the id is generated
SvcCreateApplication(apps, cfgs, id, text, withDefault) ==
  LET body == JSONparse(text)
      name == Member(body.val, "name")
  IN IF ~ body.ok \/ name.t # "string"
     THEN SvcOut(HttpJson(400, Detail("Validation failed")), apps, cfgs)
     ELSE IF \E a \in apps : a.name = name.v[1]
     THEN SvcOut(HttpJson(409, Detail("Application name already exists")), apps, cfgs)
     ELSE LET a == [id |-> id, name |-> name.v[1]]
          IN SvcOut(HttpJson(201, ApplicationJson(a)), apps \cup {a},
                    IF withDefault
                    THEN cfgs \cup {[application_id |-> id, config |-> Obj0]}
                    ELSE cfgs)

\* GET /applications/{id}: 200 + Application, 404
SvcGetApplication(apps, cfgs, id) ==
  IF SvcHasApplication(apps, id)
  THEN SvcOut(HttpJson(200, ApplicationJson(CHOOSE a \in apps : a.id = id)), apps, cfgs)
  ELSE SvcOut(HttpJson(404, Detail("Application not found")), apps, cfgs)

\* DELETE /applications/{id}: 204, 404; cascades to the configuration
SvcDeleteApplication(apps, cfgs, id) ==
  IF SvcHasApplication(apps, id)
  THEN SvcOut(HttpResponse(204, <<>>), {a \in apps : a.id # id}, SvcCascade(cfgs, id))
  ELSE SvcOut(HttpJson(404, Detail("Application not found")), apps, cfgs)

\* GET /applications/{id}/config: 200 + Configuration, 404
SvcGetConfiguration(apps, cfgs, id) ==
  IF SvcHasConfiguration(cfgs, id)
  THEN SvcOut(HttpJson(200, ConfigurationJson(SvcConfigurationOf(cfgs, id))), apps, cfgs)
  ELSE SvcOut(HttpJson(404, Detail("Configuration not found")), apps, cfgs)

\* the document must deserialize to a JSON object
SvcValidDocument(body) == body.ok /\ Member(body.val, "config").t = "object"

\* PUT /applications/{id}/config: 200 + Configuration, 400 (bad JSON shape),
\* 404; the new document replaces the old one whole
SvcUpsertConfiguration(apps, cfgs, id, text) ==
  LET body == JSONparse(text)
  IN IF ~ SvcValidDocument(body)
     THEN SvcOut(HttpJson(400, Detail("Validation failed")), apps, cfgs)
     ELSE IF ~ SvcHasApplication(apps, id)
     THEN SvcOut(HttpJson(404, Detail("Application not found")), apps, cfgs)
     ELSE LET row == [application_id |-> id, config |-> Member(body.val, "config")]
          IN SvcOut(HttpJson(200, ConfigurationJson(row)), apps,
                    {c \in cfgs : c.application_id # id} \cup {row})

(***************************************************************************)
(* Part B.  ConfigClient.                                                  *)
(***************************************************************************)
\* fetch() rejected: the request did not reach the service
FailedToFetch ==
  [threw |-> TRUE, name |-> "TypeError", message |-> "Failed to fetch",
   status |-> 0, body |-> <<>>]
\* fetch() rejected because controller.abort() was called
Aborted ==
  [threw |-> TRUE, name |-> "AbortError", message |-> "This operation was aborted",
   status |-> 0, body |-> <<>>]
\* response.json() rejected: the connection was lost while the body came in
BodyLost ==
  [threw |-> TRUE, name |-> "Error", message |-> "aborted", status |-> 0, body |-> <<>>]
NetOutcomes == {"ok", "failed"}

Success(data) == [success |-> TRUE, data |-> data, error |-> JUndefined]
Failure(error) == [success |-> FALSE, data |-> JUndefined, error |-> error]
\* the message of the SyntaxError response.json() throws
UnexpectedEnd == "Unexpected end of JSON input"

\* error.message.includes('aborted'), for the messages of the errors above
IncludesAborted(message) == message \in {Aborted.message, BodyLost.message}

\* the catch block of request, for a thrown Error
Caught(error) ==
  IF error.name = "AbortError" \/ IncludesAborted(error.message)
  THEN Failure(JStr("Request aborted: " \o error.message))
  ELSE Failure(JStr(error.message))

\* a request that takes every HTTP status for a success
request_IgnoresStatus(fetched) ==
  IF fetched.threw THEN Caught(fetched)
  ELSE IF fetched.status = 204 THEN Success(JUndefined)
  ELSE LET data == JSONparse(fetched.body)
       IN IF data.ok THEN Success(data.val) ELSE Failure(JStr(UnexpectedEnd))

\* a request without the 204 branch: response.json() on an empty body
request_No204(fetched) ==
  IF fetched.threw THEN Caught(fetched)
  ELSE IF ~ (fetched.status >= 200 /\ fetched.status <= 299)
  THEN LET error == JSONparse(fetched.body)
       IN IF error.ok THEN Failure(Member(error.val, "detail"))
          ELSE Failure(JStr(UnexpectedEnd))
  ELSE LET data == JSONparse(fetched.body)
       IN IF data.ok THEN Success(data.val) ELSE Failure(JStr(UnexpectedEnd))

\* ConfigClient.request from the settled fetch() on
request(fetched) ==
  IF fetched.threw THEN Caught(fetched)
  ELSE IF ~ (fetched.status >= 200 /\ fetched.status <= 299)
  THEN LET error == JSONparse(fetched.body)
       IN IF error.ok THEN Failure(Member(error.val, "detail"))
          ELSE Failure(JStr(UnexpectedEnd))
  ELSE IF fetched.status = 204 THEN Success(JUndefined)
  ELSE LET data == JSONparse(fetched.body)
       IN IF data.ok THEN Success(data.val) ELSE Failure(JStr(UnexpectedEnd))

\* what one ConfigClient method does: the service handles the request unless
\* fetch() fails, and request() turns the outcome into an ApiResponse
Exchange(net, out, apps, cfgs) ==
  IF net = "ok"
  THEN [status |-> out.response.status, result |-> request(out.response),
        apps |-> out.apps, cfgs |-> out.cfgs]
  ELSE [status |-> 0, result |-> request(FailedToFetch), apps |-> apps, cfgs |-> cfgs]

\* ConfigClient.createApplication(data)
createApplication(apps, cfgs, id, name, withDefault, net) ==
  Exchange(net, SvcCreateApplication(apps, cfgs, id,
                  JSONstringify(JObj(<< <<"name", name>> >>)), withDefault),
           apps, cfgs)
\* ConfigClient.getApplication(id)
getApplication(apps, cfgs, id, net) ==
  Exchange(net, SvcGetApplication(apps, cfgs, id), apps, cfgs)
\* ConfigClient.deleteApplication(id)
deleteApplication(apps, cfgs, id, net) ==
  Exchange(net, SvcDeleteApplication(apps, cfgs, id), apps, cfgs)
\* ConfigClient.getConfiguration(applicationId)
getConfiguration(apps, cfgs, id, net) ==
  Exchange(net, SvcGetConfiguration(apps, cfgs, id), apps, cfgs)
\* an updateConfiguration that sends data.config as the body
updateConfiguration_Unwrapped(apps, cfgs, id, config, net) ==
  Exchange(net, SvcUpsertConfiguration(apps, cfgs, id, JSONstringify(config)),
           apps, cfgs)

\* ConfigClient.updateConfiguration(applicationId, data), data = {config}
updateConfiguration(apps, cfgs, id, config, net) ==
  Exchange(net, SvcUpsertConfiguration(apps, cfgs, id,
                  JSONstringify(JObj(<< <<"config", config>> >>))),
           apps, cfgs)

NoCall == [op |-> "none", id |-> "", sent |-> JUndefined, status |-> 0,
           result |-> Success(JUndefined)]
Call(op, id, sent, x) ==
  [op |-> op, id |-> id, sent |-> sent, status |-> x.status, result |-> x.result]

(***************************************************************************)
(* Part B.  The ConfigDetail element.                                      *)
(***************************************************************************)
\* JavaScript truthiness of a value
Truthy(x) ==
  CASE x.t = "undefined" -> FALSE
    [] x.t = "null" -> FALSE
    [] x.t = "string" -> x.v[1] # ""
    [] x.t = "number" -> x.v[1] # 0
    [] OTHER -> TRUE

\* what a user may leave in the textarea
EditorTexts ==
  { <<Punct("{"), Punct("}")>>,
    <<Punct("{"), StrTok("b"), Punct(":"), NumTok(2), Punct("}")>>,
    <<Punct("["), NumTok(1), Punct("]")>>,
    <<NumTok(7)>>,
    <<NullTok>>,
    <<Punct("{"), StrTok("b"), Punct(":")>> }

AwaitSlots == {1, 2}
NotAwaiting == [call |-> "none", phase |-> "", id |-> "", sent |-> JUndefined,
                status |-> 0, result |-> Success(JUndefined)]
Sent(call, id, sent) ==
  [call |-> call, phase |-> "sent", id |-> id, sent |-> sent,
   status |-> 0, result |-> Success(JUndefined)]
FreeSlot(aw) == CHOOSE s \in AwaitSlots :
                  /\ aw[s].call = "none"
                  /\ \A r \in AwaitSlots : aw[r].call = "none" => s <= r
HasFreeSlots(aw, n) == Cardinality({s \in AwaitSlots : aw[s].call = "none"}) >= n

\* the fields of a new element; view is what render() last put on the page
NewConfigDetail ==
  [connected |-> FALSE, applicationId |-> "", configuration |-> JNull,
   loadingState |-> "idle", error |-> JNull, isEditing |-> FALSE,
   editingConfig |-> <<>>, view |-> "none"]

\* ConfigDetail.render: which of the five pages is shown
render(cd) ==
  [cd EXCEPT !.view =
     IF cd.loadingState = "loading" THEN "loading"
     ELSE IF cd.loadingState = "error" \/ Truthy(cd.error) THEN "error"
     ELSE IF ~ Truthy(cd.configuration) THEN "empty"
     ELSE IF cd.isEditing THEN "edit"
     ELSE "display"]

\* the handlers render attaches to the page it has drawn
Controls(cd) ==
  IF cd.view = "display" THEN {"startEditing"}
  ELSE IF cd.view = "edit" THEN {"cancelEditing", "saveConfiguration", "onConfigChange"}
  ELSE {}

\* ConfigDetail.loadConfiguration up to its await: the element and the slots
loadConfiguration(cd, aw) ==
  IF cd.applicationId = "" THEN [cd |-> cd, aw |-> aw]
  ELSE [cd |-> render([cd EXCEPT !.loadingState = "loading", !.error = JNull]),
        aw |-> [aw EXCEPT ![FreeSlot(aw)] = Sent("load", cd.applicationId, JUndefined)]]

\* <config-detail application-id="id"> is put on the page: the attribute
\* reaction runs, then the connected reaction
ElementCreated(id) ==
  /\ ~ configDetail.connected
  /\ HasFreeSlots(awaiting, 2)
  /\ LET a == loadConfiguration([configDetail EXCEPT !.applicationId = id], awaiting)
         c == loadConfiguration(render([a.cd EXCEPT !.connected = TRUE]), a.aw)
     IN /\ configDetail' = c.cd
        /\ awaiting' = c.aw
  /\ UNCHANGED <<svcApplications, svcConfigurations, deleted, last, keyedVars, otherVars>>

\* ConfigDetail.attributeChangedCallback('application-id', old, newValue)
attributeChangedCallback(newValue) ==
  /\ configDetail.connected
  /\ HasFreeSlots(awaiting, 1)
  /\ newValue # configDetail.applicationId
  /\ LET a == loadConfiguration([configDetail EXCEPT !.applicationId = newValue],
                                awaiting)
     IN /\ configDetail' = a.cd
        /\ awaiting' = a.aw
  /\ UNCHANGED <<svcApplications, svcConfigurations, deleted, last, keyedVars, otherVars>>

\* the service answers (or fetch fails on) a request the element has sent
Served(s, net) ==
  /\ awaiting[s].call # "none" /\ awaiting[s].phase = "sent"
  /\ LET x == IF awaiting[s].call = "load"
              THEN getConfiguration(svcApplications, svcConfigurations,
                                    awaiting[s].id, net)
              ELSE updateConfiguration(svcApplications, svcConfigurations,
                                       awaiting[s].id, awaiting[s].sent, net)
     IN /\ svcApplications' = x.apps
        /\ svcConfigurations' = x.cfgs
        /\ awaiting' = [awaiting EXCEPT ![s].phase = "answered",
                                        ![s].status = x.status,
                                        ![s].result = x.result]
  /\ UNCHANGED <<deleted, last, configDetail, keyedVars, otherVars>>

\* a loadConfiguration that stores result.data whether or not the call succeeded
LoadSettled_IgnoresFailure(s) ==
  /\ awaiting[s].call = "load" /\ awaiting[s].phase = "answered"
  /\ LET result == awaiting[s].result
     IN configDetail' =
          IF result.success
          THEN render([configDetail EXCEPT !.configuration = result.data,
                                           !.loadingState = "success"])
          ELSE render([configDetail EXCEPT !.configuration = result.data,
                                           !.error = result.error,
                                           !.loadingState = "error"])
  /\ awaiting' = [awaiting EXCEPT ![s] = NotAwaiting]
  /\ UNCHANGED <<svcApplications, svcConfigurations, deleted, last, keyedVars, otherVars>>

\* ConfigDetail.loadConfiguration after its await
LoadSettled(s) ==
  /\ awaiting[s].call = "load" /\ awaiting[s].phase = "answered"
  /\ LET result == awaiting[s].result
     IN configDetail' =
          IF result.success
          THEN render([configDetail EXCEPT !.configuration = result.data,
                                           !.loadingState = "success"])
          ELSE render([configDetail EXCEPT !.error = result.error,
                                           !.loadingState = "error"])
  /\ awaiting' = [awaiting EXCEPT ![s] = NotAwaiting]
  /\ UNCHANGED <<svcApplications, svcConfigurations, deleted, last, keyedVars, otherVars>>

\* ConfigDetail.startEditing, the click handler of #edit-btn
startEditing ==
  /\ configDetail.view = "display"
  /\ configDetail' =
       IF Truthy(configDetail.configuration)
       THEN render([configDetail EXCEPT
                      !.isEditing = TRUE,
                      !.editingConfig =
                         JSONstringify(Member(configDetail.configuration, "config"))])
       ELSE configDetail
  /\ UNCHANGED <<svcApplications, svcConfigurations, deleted, last, awaiting, keyedVars, otherVars>>

\* ConfigDetail.cancelEditing, the click handler of #cancel-btn
cancelEditing ==
  /\ configDetail.view = "edit"
  /\ configDetail' = render([configDetail EXCEPT !.isEditing = FALSE,
                                                 !.editingConfig = <<>>])
  /\ UNCHANGED <<svcApplications, svcConfigurations, deleted, last, awaiting, keyedVars, otherVars>>

\* ConfigDetail.onConfigChange, the input handler of #config-textarea
onConfigChange(text) ==
  /\ configDetail.view = "edit"
  /\ configDetail' = [configDetail EXCEPT !.editingConfig = text]
  /\ UNCHANGED <<svcApplications, svcConfigurations, deleted, last, awaiting, keyedVars, otherVars>>

\* ConfigDetail.saveConfiguration up to its await, the click handler of #save-btn
saveConfiguration ==
  /\ configDetail.view = "edit"
  /\ HasFreeSlots(awaiting, 1)
  /\ LET config == JSONparse(configDetail.editingConfig)
     IN IF configDetail.applicationId = ""
        THEN UNCHANGED <<configDetail, awaiting>>
        ELSE IF config.ok
        THEN /\ awaiting' = [awaiting EXCEPT ![FreeSlot(awaiting)] =
                               Sent("save", configDetail.applicationId, config.val)]
             /\ UNCHANGED configDetail
        ELSE /\ configDetail' = render([configDetail EXCEPT
                                          !.error = JStr("Invalid JSON format")])
             /\ UNCHANGED awaiting
  /\ UNCHANGED <<svcApplications, svcConfigurations, deleted, last, keyedVars, otherVars>>

\* a saveConfiguration that does not look at result.success
SaveSettled_AlwaysSuccess(s) ==
  /\ awaiting[s].call = "save" /\ awaiting[s].phase = "answered"
  /\ configDetail' = render([configDetail EXCEPT
                               !.configuration = awaiting[s].result.data,
                               !.isEditing = FALSE,
                               !.editingConfig = <<>>])
  /\ awaiting' = [awaiting EXCEPT ![s] = NotAwaiting]
  /\ UNCHANGED <<svcApplications, svcConfigurations, deleted, last, keyedVars, otherVars>>

\* ConfigDetail.saveConfiguration after its await
SaveSettled(s) ==
  /\ awaiting[s].call = "save" /\ awaiting[s].phase = "answered"
  /\ LET result == awaiting[s].result
     IN configDetail' =
          IF result.success
          THEN render([configDetail EXCEPT !.configuration = result.data,
                                           !.isEditing = FALSE,
                                           !.editingConfig = <<>>])
          ELSE render([configDetail EXCEPT !.error = result.error])
  /\ awaiting' = [awaiting EXCEPT ![s] = NotAwaiting]
  /\ UNCHANGED <<svcApplications, svcConfigurations, deleted, last, keyedVars, otherVars>>

(***************************************************************************)
(* Part B.  Calls made through ConfigClient by any caller, and the         *)
(* specifications.                                                         *)
(***************************************************************************)
Called(op, id, sent, x) ==
  /\ svcApplications' = x.apps
  /\ svcConfigurations' = x.cfgs
  /\ last' = Call(op, id, sent, x)

\* a caller awaits configClient.createApplication({name}); the service
\* generates an id no application has
ClientCreateApplication(id, name, withDefault, net) ==
  /\ ~ SvcHasApplication(svcApplications, id)
  /\ LET x == createApplication(svcApplications, svcConfigurations, id, name,
                                withDefault, net)
     IN /\ Called("createApplication", id, name, x)
        /\ deleted' = IF x.status = 201 THEN deleted \ {id} ELSE deleted
  /\ UNCHANGED <<configDetail, awaiting, keyedVars, otherVars>>

\* a caller awaits configClient.getApplication(id)
ClientGetApplication(id, net) ==
  /\ Called("getApplication", id, JUndefined,
            getApplication(svcApplications, svcConfigurations, id, net))
  /\ UNCHANGED <<deleted, configDetail, awaiting, keyedVars, otherVars>>

\* a caller awaits configClient.deleteApplication(id)
ClientDeleteApplication(id, net) ==
  /\ LET x == deleteApplication(svcApplications, svcConfigurations, id, net)
     IN /\ Called("deleteApplication", id, JUndefined, x)
        /\ deleted' = IF x.status = 204 THEN deleted \cup {id} ELSE deleted
  /\ UNCHANGED <<configDetail, awaiting, keyedVars, otherVars>>

\* a caller awaits configClient.getConfiguration(id)
ClientGetConfiguration(id, net) ==
  /\ Called("getConfiguration", id, JUndefined,
            getConfiguration(svcApplications, svcConfigurations, id, net))
  /\ UNCHANGED <<deleted, configDetail, awaiting, keyedVars, otherVars>>

\* a caller awaits configClient.updateConfiguration(id, {config})
ClientUpdateConfiguration(id, config, net) ==
  /\ Called("updateConfiguration", id, config,
            updateConfiguration(svcApplications, svcConfigurations, id, config, net))
  /\ UNCHANGED <<deleted, configDetail, awaiting, keyedVars, otherVars>>

DocInit ==
  /\ svcApplications = {}
  /\ svcConfigurations = {}
  /\ deleted = {}
  /\ last = NoCall
  /\ configDetail = NewConfigDetail
  /\ awaiting = [s \in AwaitSlots |-> NotAwaiting]

(***************************************************************************)
(* Part A.  The list routes: GET /applications and                         *)
(* GET /configurations/application/:applicationId.                         *)
(***************************************************************************)
\* a query-string value, character by character
QStr(chars) == [t |-> "string", v |-> chars]
\* JavaScript numbers
JsInt(n) == [t |-> "int", v |-> n]
JsNaN == [t |-> "NaN", v |-> 0]
JsInfinity == [t |-> "Infinity", v |-> 0]

IsDigit(c) == \E n \in Digits : ToString(n) = c
DigitOf(c) == CHOOSE n \in Digits : ToString(n) = c

RECURSIVE LeadingDigits(_)
\* the longest prefix of digits
LeadingDigits(chars) ==
  IF chars = <<>> \/ ~ IsDigit(Head(chars)) THEN <<>>
  ELSE <<Head(chars)>> \o LeadingDigits(Tail(chars))
RECURSIVE DigitsValue(_, _)
DigitsValue(chars, acc) ==
  IF chars = <<>> THEN acc
  ELSE DigitsValue(Tail(chars), 10 * acc + DigitOf(Head(chars)))

\* parseInt(string): an optional sign, then digits up to the first character
\* that is none; NaN when there is no digit
parseInt(x) ==
  LET signed == x.v # <<>> /\ Head(x.v) \in {"-", "+"}
      digits == LeadingDigits(IF signed THEN Tail(x.v) ELSE x.v)
  IN IF digits = <<>> THEN JsNaN
     ELSE IF signed /\ Head(x.v) = "-" THEN JsInt(0 - DigitsValue(digits, 0))
     ELSE JsInt(DigitsValue(digits, 0))

\* validator.js isInt: /^[-+]?(0|[1-9][0-9]*)$/, then the min and max options
isIntString(x) ==
  LET signed == x.v # <<>> /\ Head(x.v) \in {"-", "+"}
      body == IF signed THEN Tail(x.v) ELSE x.v
  IN /\ body # <<>>
     /\ \A i \in 1..Len(body) : IsDigit(body[i])
     /\ Len(body) > 1 => body[1] # "0"
\* no upper limit
NoMax == 0 - 1
isInt(x, min, max) ==
  /\ isString(x) /\ isIntString(x)
  /\ parseInt(x).v >= min
  /\ max # NoMax => parseInt(x).v <= max

\* req.query.page || '1': undefined and '' are falsy
OrDefault(x, default) == IF x = Undefined \/ x.v = <<>> THEN QStr(default) ELSE x

JsMinus1(x) == IF x.t = "int" THEN JsInt(x.v - 1) ELSE x
JsTimes(x, y) == IF x.t = "int" /\ y.t = "int" THEN JsInt(x.v * y.v) ELSE JsNaN
\* the quotient rounded down: Math.floor(total / limit)
CeilDiv_Floor(total, limit) ==
  IF limit.t = "int" /\ limit.v > 0 THEN JsInt(total \div limit.v) ELSE JsNaN

\* Math.ceil(total / limit) for an integer total >= 0
CeilDiv(total, limit) ==
  IF limit.t # "int" THEN JsNaN
  ELSE IF limit.v = 0 THEN (IF total = 0 THEN JsNaN ELSE JsInfinity)
  ELSE IF limit.v > 0 THEN JsInt((total + limit.v - 1) \div limit.v)
  ELSE JsInt(0 - (total \div (0 - limit.v)))

\* the orders ORDER BY created_at DESC may return the rows in: rows of one
\* created_at come in any order
Orderings(rows) ==
  {o \in [1..Cardinality(rows) -> rows] :
     /\ \A i, j \in 1..Cardinality(rows) : i # j => o[i] # o[j]
     /\ \A i, j \in 1..Cardinality(rows) : i < j => o[i].created_at >= o[j].created_at}

\* ... LIMIT $n OFFSET $m on the ordered rows; the statement fails on a value
\* that is no integer (22P02) and on a negative LIMIT (2201W) or OFFSET (2201X)
LimitOffset(ordered, limit, offset) ==
  IF limit.t # "int" \/ offset.t # "int" THEN [code |-> "22P02", rows |-> <<>>]
  ELSE IF limit.v < 0 THEN [code |-> "2201W", rows |-> <<>>]
  ELSE IF offset.v < 0 THEN [code |-> "2201X", rows |-> <<>>]
  ELSE LET upto == IF offset.v + limit.v < Len(ordered)
                   THEN offset.v + limit.v ELSE Len(ordered)
       IN [code |-> "", rows |-> SubSeq(ordered, offset.v + 1, upto)]

\* a list handler suspended at an await: the parsed page and limit, the rows of
\* its SELECT, and seen, the table as that SELECT saw it
Suspended(op, stage, req, page, limit, rows, seen) ==
  [busy |-> TRUE, op |-> op, stage |-> stage, req |-> req, page |-> page,
   limit |-> limit, rows |-> rows, seen |-> seen]

ListBody(s, total) ==
  [data |-> pending[s].rows,
   pagination |-> [page |-> pending[s].page, limit |-> pending[s].limit,
                   total |-> total,
                   totalPages |-> CeilDiv(total, pending[s].limit)]]

\* ApplicationController.getAll up to its second await:
\* SELECT * FROM applications ORDER BY created_at DESC LIMIT $1 OFFSET $2
AppGetAllSelect(s, page, limit, ordered) ==
  LET req == [page |-> page, limit |-> limit]
      pageNum == parseInt(OrDefault(page, <<"1">>))
      limitNum == parseInt(OrDefault(limit, <<"1", "0">>))
      offset == JsTimes(JsMinus1(pageNum), limitNum)
      r == LimitOffset(ordered, limitNum, offset)
  IN /\ ~ pending[s].busy
     /\ queried' = <<"SELECT * FROM applications ORDER BY created_at DESC LIMIT OFFSET">>
     /\ IF r.code # ""
        THEN /\ resp' = Reply("app.getAll", req, r.code, 500, "Internal server error", NoRow)
             /\ UNCHANGED pending
        ELSE /\ resp' = Reply("app.getAll.await", req, "", 0, "", NoRow)
             /\ pending' = [pending EXCEPT ![s] =
                  Suspended("app.getAll", "count", req, pageNum, limitNum, r.rows,
                            applications)]
     /\ UNCHANGED <<applications, appSeq, configurations, cfgSeq, now, racer, docVars, otherVars>>

\* ApplicationController.getAll from its second query on:
\* SELECT COUNT(*) as total FROM applications
AppGetAllCount(s) ==
  /\ pending[s].busy /\ pending[s].op = "app.getAll"
  /\ queried' = <<"SELECT COUNT(*) FROM applications">>
  /\ resp' = Reply("app.getAll", pending[s].req, "", 200, "",
                   ListBody(s, Cardinality(applications)))
  /\ pending' = [pending EXCEPT ![s] = Idle]
  /\ UNCHANGED <<applications, appSeq, configurations, cfgSeq, now, racer, docVars, otherVars>>

getByApplicationValidation(applicationId, environment, page, limit) ==
  /\ isIntMin1(applicationId)
  /\ optional(environment, isString(environment))
  /\ optional(page, isInt(page, 1, NoMax))
  /\ optional(limit, isInt(limit, 1, 100))

\* WHERE c.application_id = $1 [AND c.environment = $2], joined to applications
Matching(cfgs, apps, applicationId, environment) ==
  {c \in cfgs : /\ c.application_id = applicationId
                /\ AppExists(apps, applicationId)
                /\ (environment = Undefined \/ environment.v = ""
                    \/ c.environment = environment.v)}

\* ConfigurationController.getByApplication up to its first await: validation,
\* then SELECT id FROM applications WHERE id = $1
CfgGetByApplicationCheck(s, applicationId, environment, page, limit) ==
  LET req == [applicationId |-> applicationId, environment |-> environment,
              page |-> page, limit |-> limit]
  IN /\ ~ pending[s].busy
     /\ IF ~ getByApplicationValidation(applicationId, environment, page, limit)
        THEN /\ resp' = Reply("cfg.getByApplication", req, "", 400,
                              "Validation failed", NoRow)
             /\ queried' = <<>>
             /\ UNCHANGED pending
        ELSE /\ queried' = <<"SELECT id FROM applications">>
             /\ IF ~ AppExists(applications, applicationId)
                THEN /\ resp' = Reply("cfg.getByApplication", req, "", 404,
                                      "Application not found", NoRow)
                     /\ UNCHANGED pending
                ELSE /\ resp' = Reply("cfg.getByApplication.await", req, "", 0, "", NoRow)
                     /\ pending' = [pending EXCEPT ![s] =
                          Suspended("cfg.getByApplication", "select", req,
                                    parseInt(OrDefault(page, <<"1">>)),
                                    parseInt(OrDefault(limit, <<"1", "0">>)), <<>>, {})]
     /\ UNCHANGED <<applications, appSeq, configurations, cfgSeq, now, racer, docVars, otherVars>>

\* ConfigurationController.getByApplication between its second and third
\* await: SELECT c.*, a.name ... ORDER BY c.created_at DESC LIMIT OFFSET
CfgGetByApplicationSelect(s) ==
  /\ pending[s].busy /\ pending[s].op = "cfg.getByApplication"
  /\ pending[s].stage = "select"
  /\ \E ordered \in Orderings(Matching(configurations, applications,
                                       pending[s].req.applicationId,
                                       pending[s].req.environment)) :
       LET p == pending[s]
           r == LimitOffset(ordered, p.limit, JsTimes(JsMinus1(p.page), p.limit))
       IN /\ queried' = <<"SELECT c.* FROM configurations c JOIN applications a LIMIT OFFSET">>
          /\ IF r.code # ""
             THEN /\ resp' = Reply("cfg.getByApplication", p.req, r.code, 500,
                                   "Internal server error", NoRow)
                  /\ pending' = [pending EXCEPT ![s] = Idle]
             ELSE /\ resp' = Reply("cfg.getByApplication.await", p.req, "", 0, "", NoRow)
                  /\ pending' = [pending EXCEPT ![s] =
                       Suspended(p.op, "count", p.req, p.page, p.limit, r.rows,
                                 Matching(configurations, applications,
                                          p.req.applicationId, p.req.environment))]
  /\ UNCHANGED <<applications, appSeq, configurations, cfgSeq, now, racer, docVars, otherVars>>

\* ConfigurationController.getByApplication from its third query on:
\* SELECT COUNT(*) as total FROM configurations WHERE application_id = $1 ...
CfgGetByApplicationCount(s) ==
  LET p == pending[s]
  IN /\ p.busy /\ p.op = "cfg.getByApplication" /\ p.stage = "count"
     /\ queried' = <<"SELECT COUNT(*) FROM configurations">>
     /\ resp' = Reply("cfg.getByApplication", p.req, "", 200, "",
                      ListBody(s, Cardinality(
                        {c \in configurations :
                           /\ c.application_id = p.req.applicationId
                           /\ (p.req.environment = Undefined
                               \/ p.req.environment.v = ""
                               \/ c.environment = p.req.environment.v)})))
     /\ pending' = [pending EXCEPT ![s] = Idle]
     /\ UNCHANGED <<applications, appSeq, configurations, cfgSeq, now, racer, docVars, otherVars>>

(***************************************************************************)
(* ConfigClient.request in time: the fetch, the timer, the body.           *)
(***************************************************************************)
Methods == {"getApplication", "createApplication", "deleteApplication",
            "getConfiguration", "updateConfiguration", "getConfigByName"}
\* options.timeout of the constructor: 0 for none given
TimeoutOptions == {0, 20000}
Statuses == {200, 204, 404, 422, 500}
\* bodies a response may carry: a document, the service's error document, error
\* documents of other shapes, and texts that are not JSON
Bodies ==
  { JSONstringify(ObjA),
    JSONstringify(Detail("Application not found")),
    JSONstringify(Obj0),
    JSONstringify(JObj(<< <<"error", JStr("Internal server error")>> >>)),
    JSONstringify(JObj(<< <<"detail", JArr(<<JObj(<< <<"msg", JStr("field required")>> >>)>>)>> >>)),
    <<StrTok("invalid"), StrTok("json")>>,
    <<>> }

NoResult == [success |-> FALSE, data |-> JUndefined, error |-> JUndefined]
NoRequest ==
  [stage |-> "idle", method |-> "", timer |-> FALSE, fetched |-> HttpResponse(0, <<>>),
   result |-> NoResult]

ClientInit ==
  /\ pendingCall = NoRequest
  /\ elapsed = 0
  /\ timeout = DefaultTimeout

\* a method calls request: the timer is set, fetch() is awaited
RequestStarted(method) ==
  /\ pendingCall.stage \in {"idle", "settled"}
  /\ pendingCall' = [NoRequest EXCEPT !.stage = "fetching", !.method = method, !.timer = TRUE]
  /\ elapsed' = 0
  /\ UNCHANGED <<timeout, keyedVars, docVars, poolVars, formVars, appVars>>

\* fetch() resolves with the status line and headers: clearTimeout, then the
\* 204 branch returns, every other branch awaits response.json()
ResponseArrived(status) ==
  /\ pendingCall.stage = "fetching"
  /\ pendingCall' = IF status = 204
             THEN [pendingCall EXCEPT !.stage = "settled", !.timer = FALSE,
                               !.fetched = HttpResponse(status, <<>>),
                               !.result = request(HttpResponse(status, <<>>))]
             ELSE [pendingCall EXCEPT !.stage = "body", !.timer = FALSE,
                               !.fetched = HttpResponse(status, <<>>)]
  /\ UNCHANGED <<elapsed, timeout, keyedVars, docVars, poolVars, formVars, appVars>>

\* fetch() rejects: the catch block
FetchFailed ==
  /\ pendingCall.stage = "fetching"
  /\ pendingCall' = [pendingCall EXCEPT !.stage = "settled", !.fetched = FailedToFetch,
                          !.result = request(FailedToFetch)]
  /\ UNCHANGED <<elapsed, timeout, keyedVars, docVars, poolVars, formVars, appVars>>

\* the timer set at the start comes due: controller.abort().  A fetch() still
\* awaited rejects with an AbortError; a finished one is not touched.
TimerFired ==
  /\ pendingCall.timer
  /\ elapsed >= timeout
  /\ pendingCall' = IF pendingCall.stage = "fetching"
             THEN [pendingCall EXCEPT !.stage = "settled", !.timer = FALSE,
                               !.fetched = Aborted, !.result = request(Aborted)]
             ELSE [pendingCall EXCEPT !.timer = FALSE]
  /\ UNCHANGED <<elapsed, timeout, keyedVars, docVars, poolVars, formVars, appVars>>

\* the body has come in: response.json() settles and request returns
BodyRead(text) ==
  /\ pendingCall.stage = "body"
  /\ pendingCall' = [pendingCall EXCEPT !.stage = "settled",
                          !.fetched = HttpResponse(pendingCall.fetched.status, text),
                          !.result = request(HttpResponse(pendingCall.fetched.status, text))]
  /\ UNCHANGED <<elapsed, timeout, keyedVars, docVars, poolVars, formVars, appVars>>

\* the connection is lost while the body comes in: response.json() rejects
BodyFailed ==
  /\ pendingCall.stage = "body"
  /\ pendingCall' = [pendingCall EXCEPT !.stage = "settled",
                          !.fetched = [BodyLost EXCEPT !.status = pendingCall.fetched.status],
                          !.result = request(BodyLost)]
  /\ UNCHANGED <<elapsed, timeout, keyedVars, docVars, poolVars, formVars, appVars>>

\* time passes while the request is awaited; a timer that is due runs first
Advance ==
  /\ pendingCall.stage \in {"fetching", "body"}
  /\ elapsed < MaxElapsed
  /\ ~ (pendingCall.timer /\ elapsed >= timeout)
  /\ elapsed' = elapsed + TickMs
  /\ UNCHANGED <<pendingCall, timeout, keyedVars, docVars, poolVars, formVars, appVars>>

(***************************************************************************)
(* CreateAppForm.                                                          *)
(***************************************************************************)
\* field values, character by character
FormNames == {<<>>, <<" ">>, <<"a", "-", "1">>, <<"b", "_", "d">>, <<"a", " ", "b">>}
FormDescriptions == {<<>>, <<" ">>, <<"d">>}
\* what api.createApplication resolves to
FormResults ==
  {Success(ApplicationJson([id |-> "01A", name |-> "x"])),
   Failure(JStr("Application name already exists")), Failure(JStr("Failed to fetch"))}

RECURSIVE TrimStart(_)
TrimStart(chars) ==
  IF chars # <<>> /\ Head(chars) = " " THEN TrimStart(Tail(chars)) ELSE chars
RECURSIVE TrimEnd(_)
TrimEnd(chars) ==
  IF chars # <<>> /\ chars[Len(chars)] = " "
  THEN TrimEnd(SubSeq(chars, 1, Len(chars) - 1)) ELSE chars
\* String.prototype.trim
trim(chars) == TrimEnd(TrimStart(chars))
\* /^[a-zA-Z0-9_\-]+$/.test(chars), over the characters the values above use
MatchesIdentifier(chars) ==
  chars # <<>> /\ \A i \in 1..Len(chars) : chars[i] \in {"a", "b", "d", "1", "_", "-"}

\* a validateForm without its description check
validateForm_NameOnly(formData) ==
  IF trim(formData.name) = <<>> \/ ~ MatchesIdentifier(formData.name)
  THEN {"name"} ELSE {}

\* validateForm: the fields it flags
validateForm(formData) ==
  (IF trim(formData.name) = <<>> \/ ~ MatchesIdentifier(formData.name)
   THEN {"name"} ELSE {})
  \cup (IF formData.description # <<>> /\ trim(formData.description) = <<>>
        THEN {"description"} ELSE {})

EmptyForm == [name |-> <<>>, description |-> <<>>]
\* render: the controls are disabled while loadingState is 'loading'
renderForm(f) ==
  [f EXCEPT !.view = [disabled |-> f.loadingState = "loading",
                      flagged |-> f.validationErrors,
                      error |-> f.error]]
NewCreateAppForm ==
  renderForm([formData |-> EmptyForm, loadingState |-> "idle", error |-> JNull,
              validationErrors |-> {},
              view |-> [disabled |-> FALSE, flagged |-> {}, error |-> JNull]])
resetForm(f) ==
  renderForm([f EXCEPT !.formData = EmptyForm, !.validationErrors = {},
                       !.error = JNull, !.loadingState = "idle"])
\* this.emit(type, detail)
Emitted(type, detail) == [type |-> type, detail |-> detail]
Event(handler, emitted) ==
  [handler |-> handler, during |-> createForm.loadingState, emitted |-> emitted]

FormInit ==
  /\ createForm = NewCreateAppForm
  /\ creating = 0
  /\ lastEvent = [handler |-> "none", during |-> "idle", emitted |-> <<>>]

\* an input event on a field that is not disabled: onInputChange(field, value)
onInputChange(field, value) ==
  /\ ~ createForm.view.disabled
  /\ createForm' =
       LET f == IF field = "name"
                THEN [createForm EXCEPT !.formData.name = value]
                ELSE [createForm EXCEPT !.formData.description = value]
       IN IF field \in f.validationErrors
          THEN renderForm([f EXCEPT !.validationErrors = @ \ {field}])
          ELSE f
  /\ lastEvent' = Event("onInputChange", <<>>)
  /\ UNCHANGED <<creating, keyedVars, docVars, poolVars, clientVars, appVars>>

\* a submitForm without its first check
submitForm_NoGuard ==
  /\ lastEvent' = Event("submitForm", <<>>)
  /\ IF validateForm(createForm.formData) # {}
     THEN /\ createForm' = renderForm([createForm EXCEPT
                              !.validationErrors = validateForm(createForm.formData)])
          /\ UNCHANGED creating
     ELSE /\ createForm' = renderForm([createForm EXCEPT
                              !.validationErrors = {}, !.loadingState = "loading",
                              !.error = JNull])
          /\ creating' = creating + 1
  /\ UNCHANGED <<keyedVars, docVars, poolVars, clientVars, appVars>>

\* submitForm up to its await; it is the listener of every submit button the
\* element has rendered, and runs whenever one of them is clicked
submitForm ==
  /\ lastEvent' = Event("submitForm", <<>>)
  /\ IF createForm.loadingState = "loading"
     THEN UNCHANGED <<createForm, creating>>
     ELSE IF validateForm(createForm.formData) # {}
     THEN /\ createForm' = renderForm([createForm EXCEPT
                              !.validationErrors = validateForm(createForm.formData)])
          /\ UNCHANGED creating
     ELSE /\ createForm' = renderForm([createForm EXCEPT
                              !.validationErrors = {}, !.loadingState = "loading",
                              !.error = JNull])
          /\ creating' = creating + 1
  /\ UNCHANGED <<keyedVars, docVars, poolVars, clientVars, appVars>>

\* a submitForm that resets the form after a failed call as well
CreateSettled_ResetsOnFailure(result) ==
  /\ creating > 0
  /\ creating' = creating - 1
  /\ createForm' =
       IF result.success
       THEN renderForm(resetForm([createForm EXCEPT !.loadingState = "success"]))
       ELSE renderForm([resetForm(createForm) EXCEPT !.loadingState = "error",
                                                     !.error = result.error])
  /\ lastEvent' = Event("settled", IF result.success
                                   THEN <<Emitted("app-created", result.data)>>
                                   ELSE <<>>)
  /\ UNCHANGED <<keyedVars, docVars, poolVars, clientVars, appVars>>

\* submitForm from its await on: api.createApplication has resolved
CreateSettled(result) ==
  /\ creating > 0
  /\ creating' = creating - 1
  /\ createForm' =
       IF result.success
       THEN renderForm(resetForm([createForm EXCEPT !.loadingState = "success"]))
       ELSE renderForm([createForm EXCEPT !.loadingState = "error",
                                          !.error = result.error])
  /\ lastEvent' = Event("settled", IF result.success
                                   THEN <<Emitted("app-created", result.data)>>
                                   ELSE <<>>)
  /\ UNCHANGED <<keyedVars, docVars, poolVars, clientVars, appVars>>

\* a click on the Cancel button, which is not disabled: cancelForm
cancelForm ==
  /\ ~ createForm.view.disabled
  /\ createForm' = resetForm(createForm)
  /\ lastEvent' = Event("cancelForm", <<Emitted("form-cancelled", JUndefined)>>)
  /\ UNCHANGED <<creating, keyedVars, docVars, poolVars, clientVars, appVars>>

(***************************************************************************)
(* ConfigApp: the list of applications, the selected one and the create    *)
(* form.  The element loads the list once, when it is connected.           *)
(***************************************************************************)
AppPool == <<"01A", "01B", "01C">>
AppOf(id) == [id |-> id, name |-> "x"]
NoApp == [id |-> "", name |-> ""]

\* The list the service returns for the ids it holds
ListOf(ids) ==
  LET held == SelectSeq(AppPool, LAMBDA id : id \in ids)
  IN [i \in 1..Len(held) |-> AppOf(held[i])]

\* renderContent: one item per application that has an id and a name, the
\* item of the selected application with class "selected", and a
\* config-detail for the selected application
renderContent(a) ==
  IF Len(a.applications) = 0
  THEN [a EXCEPT !.items = <<>>, !.detail = ""]
  ELSE LET shown == SelectSeq(a.applications, LAMBDA app : app.id # "" /\ app.name # "")
       IN [a EXCEPT !.items = [i \in 1..Len(shown) |->
                                 [id |-> shown[i].id,
                                  selected |-> a.selectedApp.id = shown[i].id]],
                    !.detail = a.selectedApp.id]

\* render: the header and its button, the create form when showCreateForm,
\* then the loading text, the error text or renderContent
renderApp(a) ==
  LET b == [a EXCEPT !.formShown = a.showCreateForm]
  IN IF b.loadingState \in {"loading", "error"}
     THEN [b EXCEPT !.items = <<>>, !.detail = ""]
     ELSE renderContent(b)

NewConfigApp ==
  [applications |-> <<>>, selectedApp |-> NoApp, loadingState |-> "idle",
   error |-> Null, showCreateForm |-> FALSE,
   formShown |-> FALSE, items |-> <<>>, detail |-> ""]

\* connectedCallback has run: loadApplications awaits getApplications
AppInit ==
  /\ configApp = renderApp([NewConfigApp EXCEPT !.loadingState = "loading"])
  /\ appIds = {}
  /\ listCall = [stage |-> "sent"]

\* The service answers getApplications, or the request fails
ListServed(net) ==
  /\ listCall.stage = "sent"
  /\ listCall' = [stage |-> "served",
                  result |-> IF net = "ok" THEN Success(ListOf(appIds))
                             ELSE Caught(FailedToFetch)]
  /\ UNCHANGED <<configApp, appIds, keyedVars, docVars, poolVars, clientVars, formVars>>

\* loadApplications after its await
ListSettled ==
  /\ listCall.stage = "served"
  /\ listCall' = [stage |-> "settled"]
  /\ configApp' = renderApp(
        IF listCall.result.success
        THEN [configApp EXCEPT !.applications = listCall.result.data,
                               !.loadingState = "success"]
        ELSE [configApp EXCEPT !.error = listCall.result.error,
                               !.loadingState = "error"])
  /\ UNCHANGED <<appIds, keyedVars, docVars, poolVars, clientVars, formVars>>

\* selectApplication(app)
selectApplication(a, app) ==
  IF a.selectedApp.id # app.id
  THEN renderApp([a EXCEPT !.selectedApp = app])
  ELSE a

\* A click on the i-th list item: the listener render attached to it
ItemClicked(i) ==
  /\ i \in 1..Len(configApp.items)
  /\ LET appId == configApp.items[i].id
         found == SelectSeq(configApp.applications, LAMBDA app : app.id = appId)
     IN configApp' = IF Len(found) > 0
                     THEN selectApplication(configApp, found[1])
                     ELSE configApp
  /\ UNCHANGED <<appIds, listCall, keyedVars, docVars, poolVars, clientVars, formVars>>

\* A click on "Create Application"
showCreateFormModal ==
  /\ configApp' = renderApp([configApp EXCEPT !.showCreateForm = TRUE])
  /\ UNCHANGED <<appIds, listCall, keyedVars, docVars, poolVars, clientVars, formVars>>

\* The create form emitted "form-cancelled"
hideCreateForm ==
  /\ configApp.formShown
  /\ configApp' = renderApp([configApp EXCEPT !.showCreateForm = FALSE])
  /\ UNCHANGED <<appIds, listCall, keyedVars, docVars, poolVars, clientVars, formVars>>

\* The create form created an application with a new id on the service and
\* emitted "app-created" with it
onAppCreated(id) ==
  /\ configApp.formShown
  /\ id \notin appIds
  /\ appIds' = appIds \cup {id}
  /\ configApp' = renderApp([configApp EXCEPT
                               !.applications = Append(@, AppOf(id)),
                               !.selectedApp = AppOf(id),
                               !.showCreateForm = FALSE])
  /\ UNCHANGED <<listCall, keyedVars, docVars, poolVars, clientVars, formVars>>

(***************************************************************************)
(* database.ts: query() and the pool.                                      *)
(***************************************************************************)
PoolInit ==
  /\ connecting = 0
  /\ running = 0
  /\ checkedOut = 0
  /\ lastQuery = "none"

OtherInit == PoolInit /\ ClientInit /\ FormInit /\ AppInit

\* query(text, params) is called: const client = await pool.connect()
QueryCalled ==
  /\ connecting + running < MaxQueries
  /\ connecting' = connecting + 1
  /\ UNCHANGED <<running, checkedOut, lastQuery, keyedVars, docVars, clientVars, formVars, appVars>>

\* pool.connect() resolves: the pool hands out a client while fewer than max
\* are out; the call enters try
Connected ==
  /\ connecting > 0
  /\ checkedOut < PoolMax
  /\ connecting' = connecting - 1
  /\ running' = running + 1
  /\ checkedOut' = checkedOut + 1
  /\ UNCHANGED <<lastQuery, keyedVars, docVars, clientVars, formVars, appVars>>

\* pool.connect() rejects (connectionTimeoutMillis, or no server): query()
\* throws before try, holding no client
ConnectRejected ==
  /\ connecting > 0
  /\ connecting' = connecting - 1
  /\ lastQuery' = "rejected"
  /\ UNCHANGED <<running, checkedOut, keyedVars, docVars, clientVars, formVars, appVars>>

\* client.query() resolves: return res, then finally { client.release() }
StatementReturned ==
  /\ running > 0
  /\ running' = running - 1
  /\ checkedOut' = checkedOut - 1
  /\ lastQuery' = "returned"
  /\ UNCHANGED <<connecting, keyedVars, docVars, clientVars, formVars, appVars>>

\* a query() whose release() follows the statement inside try, not in finally
StatementThrew_NoFinally ==
  /\ running > 0
  /\ running' = running - 1
  /\ lastQuery' = "threw"
  /\ UNCHANGED <<connecting, checkedOut, keyedVars, docVars, clientVars, formVars, appVars>>

\* client.query() rejects: finally { client.release() }, then the error goes
\* to the caller
StatementThrew ==
  /\ running > 0
  /\ running' = running - 1
  /\ checkedOut' = checkedOut - 1
  /\ lastQuery' = "threw"
  /\ UNCHANGED <<connecting, keyedVars, docVars, clientVars, formVars, appVars>>

(***************************************************************************)
(* Part A.  The specifications.                                            *)
(***************************************************************************)
KeyedInit ==
  /\ applications = {}
  /\ appSeq = 0
  /\ configurations = {}
  /\ cfgSeq = 0
  /\ now = 0
  /\ pending = [s \in 1..MaxPending |-> Idle]
  /\ resp = Reply("none", NoReq, "", 0, "", NoRow)
  /\ queried = <<>>
  /\ racer = [i \in Racers |-> NoRacer]

Init == KeyedInit /\ DocInit /\ OtherInit

Next ==
  \/ \E name \in NameInputs, description \in DescInputs : AppCreate(name, description)
  \/ \E id \in AppIds, name \in NameInputs, description \in DescInputs :
        AppUpdate(id, name, description)
  \/ \E id \in AppIds : AppGetById(id)
  \/ Tick

Spec == Init /\ [][Next]_vars

\* The configuration routes, with the applications they hang on
NextCfg ==
  \/ \E name \in CfgAppNames : AppCreate(name, Undefined)
  \/ \E id \in 1..MaxAppSeq : DeleteApplication(id)
  \/ \E s \in 1..MaxPending, application_id \in AppIds, key \in CfgCreateKeys,
        value \in CfgCreateValues, environment \in CfgCreateEnvs :
        CfgCreateCheck(s, application_id, key, value, environment)
  \/ \E s \in 1..MaxPending : CfgCreateInsert(s)
  \/ \E id \in CfgIds, key \in CfgUpdateKeys, value \in CfgUpdateValues,
        environment \in CfgUpdateEnvs : CfgUpdate(id, key, value, environment)
  \/ \E id \in CfgIds : CfgGetById(id)

SpecCfg == Init /\ [][NextCfg]_vars

\* Every handler of the two controllers, the list routes included
PageInputs == {Undefined, QStr(<<"2">>), QStr(<<"3">>), QStr(<<"0">>), QStr(<<"a">>)}
LimitInputs == {Undefined, QStr(<<"1">>), QStr(<<"2">>), QStr(<<"0">>),
                QStr(<<"1", "0", "1">>)}
CfgPageInputs == {Undefined, QStr(<<"2">>), QStr(<<"0">>)}
CfgLimitInputs == {Undefined, QStr(<<"1">>), QStr(<<"1", "0", "1">>)}
ListNames == {Str(""), Str("a"), Str("b")}
ListEnvs == {Undefined, Str("dev")}

NextList ==
  \/ \E name \in ListNames : AppCreate(name, Undefined)
  \/ \E name \in {Undefined, Str("")} : AppUpdate(1, name, Undefined)
  \/ \E id \in 0..1 : AppGetById(id)
  \/ \E s \in 1..MaxPending, page \in PageInputs, limit \in LimitInputs :
        \E ordered \in Orderings(applications) : AppGetAllSelect(s, page, limit, ordered)
  \/ \E s \in 1..MaxPending : AppGetAllCount(s)
  \/ \E s \in 1..MaxPending, application_id \in 0..1, key \in CfgCreateKeys :
        CfgCreateCheck(s, application_id, key, Str("v"), Str("dev"))
  \/ \E s \in 1..MaxPending : CfgCreateInsert(s)
  \/ \E id \in 0..1 : CfgUpdate(id, Undefined, Undefined, Undefined)
  \/ \E id \in 0..1 : CfgGetById(id)
  \/ \E s \in 1..MaxPending, applicationId \in 0..1, environment \in ListEnvs,
        page \in CfgPageInputs, limit \in CfgLimitInputs :
        CfgGetByApplicationCheck(s, applicationId, environment, page, limit)
  \/ \E s \in 1..MaxPending : CfgGetByApplicationSelect(s)
  \/ \E s \in 1..MaxPending : CfgGetByApplicationCount(s)

SpecList == Init /\ [][NextList]_vars

\* The application routes with names of every kind: empty, of 256 characters,
\* with a space in it, and well-formed
LongName == "aaaaaaaaaaaaaaaaaaaaaaaaaaaaaaaaaaaaaaaaaaaaaaaaaaaaaaaaaaaaaaaaaaaaaaaaaaaaaaaaaaaaaaaaaaaaaaaaaaaaaaaaaaaaaaaaaaaaaaaaaaaaaaaaaaaaaaaaaaaaaaaaaaaaaaaaaaaaaaaaaaaaaaaaaaaaaaaaaaaaaaaaaaaaaaaaaaaaaaaaaaaaaaaaaaaaaaaaaaaaaaaaaaaaaaaaaaaaaaaaaaaaaaaaaaaaaaaa"
KindsOfName == {Str(""), Str(LongName), Str("a b"), Str("a-1"), Str("b_2")}

NextNames ==
  \/ \E name \in KindsOfName : AppCreate(name, Undefined)
  \/ \E id \in 1..MaxAppSeq, name \in KindsOfName : AppUpdate(id, name, Undefined)
  \/ \E id \in 1..MaxAppSeq : AppGetById(id)

SpecNames == Init /\ [][NextNames]_vars

\* query() calls against the pool
NextPool ==
  \/ QueryCalled
  \/ Connected
  \/ ConnectRejected
  \/ StatementReturned
  \/ StatementThrew

SpecPool == Init /\ [][NextPool]_vars

\* One ConfigClient and the requests made through it, one after another
InitClient ==
  /\ KeyedInit /\ DocInit /\ PoolInit /\ FormInit /\ AppInit
  /\ pendingCall = NoRequest
  /\ elapsed = 0
  /\ timeout \in {IF o = 0 THEN DefaultTimeout ELSE o : o \in TimeoutOptions}

NextClient ==
  \/ \E method \in Methods : RequestStarted(method)
  \/ \E status \in Statuses : ResponseArrived(status)
  \/ FetchFailed
  \/ TimerFired
  \/ \E text \in Bodies : BodyRead(text)
  \/ BodyFailed
  \/ Advance

SpecClient == InitClient /\ [][NextClient]_vars

\* One CreateAppForm and the person using it
NextForm ==
  \/ \E value \in FormNames : onInputChange("name", value)
  \/ \E value \in FormDescriptions : onInputChange("description", value)
  \/ submitForm
  \/ \E result \in FormResults : CreateSettled(result)
  \/ cancelForm

SpecForm == Init /\ [][NextForm]_vars

\* One ConfigApp, the service behind it and the person using it
InitApp ==
  /\ KeyedInit /\ DocInit /\ PoolInit /\ ClientInit /\ FormInit
  /\ configApp = renderApp([NewConfigApp EXCEPT !.loadingState = "loading"])
  /\ appIds \in {{}, {"01A"}, {"01A", "01B"}}
  /\ listCall = [stage |-> "sent"]

NextApp ==
  \/ \E net \in {"ok", "down"} : ListServed(net)
  \/ ListSettled
  \/ \E i \in 1..Len(AppPool) : ItemClicked(i)
  \/ showCreateFormModal
  \/ hideCreateForm
  \/ \E i \in 1..Len(AppPool) : onAppCreated(AppPool[i])

SpecApp == InitApp /\ [][NextApp]_vars

(***************************************************************************)
(* Two create requests in flight at once (specification SpecRace).  The    *)
(* store holds one application; each racer runs one handler, whose queries *)
(* interleave with the other's in every order.                             *)
(***************************************************************************)
RaceInitial == AppCreateResult({}, 0, Str("a"), Undefined, 0)

RaceAppRequests ==
  {[name |-> n, description |-> Undefined] : n \in {Str("a"), Str("b")}}
RaceCfgRequests ==
  {[application_id |-> a, key |-> k, value |-> Undefined, environment |-> e] :
     a \in {1, 2}, k \in {Str("k"), Str("m")}, e \in {Str("dev")}}
RaceArrivals ==
  {[pc |-> "start", kind |-> "app", req |-> r, reply |-> NoReq] : r \in RaceAppRequests}
  \cup
  {[pc |-> "start", kind |-> "cfg", req |-> r, reply |-> NoReq] : r \in RaceCfgRequests}

InitRace ==
  /\ applications = RaceInitial.rows
  /\ appSeq = RaceInitial.seq
  /\ configurations = {}
  /\ cfgSeq = 0
  /\ now = 0
  /\ pending = [s \in 1..MaxPending |-> Idle]
  /\ resp = RaceInitial.reply
  /\ queried = RaceInitial.queries
  /\ racer \in [Racers -> RaceArrivals]
  /\ DocInit
  /\ OtherInit

\* racer i's ApplicationController.create
RaceAppCreate(i) ==
  /\ racer[i].pc = "start" /\ racer[i].kind = "app"
  /\ LET out == AppCreateResult(applications, appSeq, racer[i].req.name,
                                racer[i].req.description, now)
     IN /\ applications' = out.rows
        /\ appSeq' = out.seq
        /\ resp' = out.reply
        /\ queried' = out.queries
        /\ racer' = [racer EXCEPT ![i].pc = "done", ![i].reply = out.reply]
  /\ UNCHANGED <<configurations, cfgSeq, now, pending, docVars, otherVars>>

\* racer i's ConfigurationController.create up to its first await
RaceCfgCheck(i) ==
  /\ racer[i].pc = "start" /\ racer[i].kind = "cfg"
  /\ LET out == CfgCreateCheckResult(applications, racer[i].req)
     IN /\ resp' = out.reply
        /\ queried' = out.queries
        /\ racer' = IF out.go
                    THEN [racer EXCEPT ![i].pc = "insert"]
                    ELSE [racer EXCEPT ![i].pc = "done", ![i].reply = out.reply]
  /\ UNCHANGED <<applications, appSeq, configurations, cfgSeq, now, pending, docVars, otherVars>>

\* racer i's ConfigurationController.create from its INSERT on
RaceCfgInsert(i) ==
  /\ racer[i].pc = "insert"
  /\ LET out == CfgCreateInsertResult(configurations, applications, cfgSeq,
                                      racer[i].req, now)
     IN /\ configurations' = out.rows
        /\ cfgSeq' = out.seq
        /\ resp' = out.reply
        /\ queried' = out.queries
        /\ racer' = [racer EXCEPT ![i].pc = "done", ![i].reply = out.reply]
  /\ UNCHANGED <<applications, appSeq, now, pending, docVars, otherVars>>

NextRace ==
  \/ \E i \in Racers : RaceAppCreate(i)
  \/ \E i \in Racers : RaceCfgCheck(i)
  \/ \E i \in Racers : RaceCfgInsert(i)

SpecRace == InitRace /\ [][NextRace]_vars

(***************************************************************************)
(* Part B.  The specifications.                                            *)
(***************************************************************************)
\* the service and its callers
InitDoc == KeyedInit /\ DocInit /\ OtherInit

NextDoc ==
  \/ \E id \in DocIds, name \in {JStr(n) : n \in DocNames} \cup {JUndefined},
       withDefault \in BOOLEAN, net \in NetOutcomes :
         ClientCreateApplication(id, name, withDefault, net)
  \/ \E id \in DocIds, net \in NetOutcomes : ClientGetApplication(id, net)
  \/ \E id \in DocIds, net \in NetOutcomes : ClientDeleteApplication(id, net)
  \/ \E id \in DocIds, net \in NetOutcomes : ClientGetConfiguration(id, net)
  \/ \E id \in DocIds, config \in DocValues, net \in NetOutcomes :
       ClientUpdateConfiguration(id, config, net)

SpecDoc == InitDoc /\ [][NextDoc]_vars

\* the editor on a page, with one application "x" whose configuration is
\* {"a":1}, and another caller writing meanwhile
EditorInitial ==
  LET c == createApplication({}, {}, "01A", JStr("x"), TRUE, "ok")
  IN updateConfiguration(c.apps, c.cfgs, "01A", ObjA, "ok")

InitEditor ==
  /\ KeyedInit
  /\ OtherInit
  /\ svcApplications = EditorInitial.apps
  /\ svcConfigurations = EditorInitial.cfgs
  /\ deleted = {}
  /\ last = Call("updateConfiguration", "01A", ObjA, EditorInitial)
  /\ configDetail = NewConfigDetail
  /\ awaiting = [s \in AwaitSlots |-> NotAwaiting]

NextEditor ==
  \/ \E id \in DocIds : ElementCreated(id)
  \/ \E id \in DocIds : attributeChangedCallback(id)
  \/ \E s \in AwaitSlots, net \in NetOutcomes : Served(s, net)
  \/ \E s \in AwaitSlots : LoadSettled(s)
  \/ startEditing
  \/ cancelEditing
  \/ \E text \in EditorTexts : onConfigChange(text)
  \/ saveConfiguration
  \/ \E s \in AwaitSlots : SaveSettled(s)
  \/ \E config \in {ObjB, JNull} : ClientUpdateConfiguration("01A", config, "ok")

SpecEditor == InitEditor /\ [][NextEditor]_vars

(***************************************************************************)
(* Properties of the application routes (specification Spec).              *)
(***************************************************************************)
RowOf(rows, id) == CHOOSE r \in rows : r.id = id

\* C1: a POST /applications that passes the route's validation and whose name is
\* the name of an existing application is answered 409 'Application with this
\* name already exists'; the applications table, and with it the existing
\* application's id, name and description, is left as it was.
C1_DuplicateNameConflict ==
  [][(/\ resp'.op = "app.create"
      /\ createApplicationValidation(resp'.req.name, resp'.req.description)
      /\ NameTaken(applications, resp'.req.name.v, 0))
     => /\ resp'.status = 409
        /\ resp'.error = "Application with this name already exists"
        /\ applications' = applications]_vars

C1_Witness ==
  /\ resp.op = "app.create"
  /\ resp.status = 409
  /\ \E a \in applications : a.name = resp.req.name.v

\* C2: ApplicationController.update on an existing id leaves every other row
\* alone, keeps the row's id and created_at, keeps the name when no name is
\* supplied and keeps the description when no description is supplied.
C2_UpdateChangesOnlySupplied ==
  [][(resp'.op = "app.update" /\ AppExists(applications, resp'.req.id))
     => LET id == resp'.req.id
            old == RowOf(applications, id)
        IN /\ {r \in applications : r.id # id} = {r \in applications' : r.id # id}
           /\ Cardinality({r \in applications' : r.id = id}) = 1
           /\ LET new == RowOf(applications', id)
              IN /\ new.created_at = old.created_at
                 /\ resp'.req.name = Undefined => new.name = old.name
                 /\ resp'.req.description = Undefined
                      => new.description = old.description]_vars

\* a name-only update that went through, on a row that has a description and
\* was written after it was created
C2_Witness ==
  /\ resp.op = "app.update"
  /\ resp.status = 200
  /\ resp.req.name = Str("b")
  /\ resp.req.description = Undefined
  /\ resp.row.name = "b"
  /\ resp.row.description = Str("d")
  /\ resp.row.updated_at > resp.row.created_at

\* C3: an ApplicationController.update that does not answer 200 leaves the
\* applications table exactly as it was; a valid rename to a name used by
\* another application is answered 409, a valid update of an id that matches no
\* row is answered 404.
C3_FailedUpdateChangesNothing ==
  [][resp'.op = "app.update"
     => LET req == resp'.req
            valid == updateApplicationValidation(req.id, req.name, req.description)
        IN /\ resp'.status # 200 => applications' = applications
           /\ (valid /\ ~ AppExists(applications, req.id))
                => resp'.status = 404
           /\ (/\ valid
               /\ AppExists(applications, req.id)
               /\ req.name # Undefined
               /\ NameTaken(applications, req.name.v, req.id))
                => resp'.status = 409]_vars

C3_Witness ==
  /\ resp.op = "app.update"
  /\ resp.status = 409
  /\ \E a \in applications : a.id # resp.req.id /\ a.name = resp.req.name.v
  /\ \E a \in applications : a.id = resp.req.id /\ a.name # resp.req.name.v

(***************************************************************************)
(* Properties of the configuration routes (specification SpecCfg).         *)
(***************************************************************************)
ForeignKeyHolds ==
  \A c \in configurations : AppExists(applications, c.application_id)

\* C4: every configuration row's application_id is the id of a row of
\* applications, in every reachable state; a valid ConfigurationController.create
\* whose application_id matches no application when it answers is answered 404
\* and adds no row (at the existence check, or at the INSERT when the application
\* went away in between); deleting an application leaves none of its
\* configurations.
C4_ApplicationIdReferencesApplication ==
  /\ []ForeignKeyHolds
  /\ [][/\ (/\ resp'.op = "cfg.create"
            /\ createConfigurationValidation(resp'.req.application_id, resp'.req.key,
                                             resp'.req.value, resp'.req.environment)
            /\ ~ AppExists(applications, resp'.req.application_id))
           => /\ resp'.status = 404
              /\ resp'.error = "Application not found"
              /\ configurations' = configurations
        /\ resp'.op = "sql.delete"
           => \A c \in configurations' : c.application_id # resp'.req.id]_vars

\* the application was there at the existence check and gone at the INSERT
C4_Witness ==
  /\ resp.op = "cfg.create"
  /\ resp.code = "23503"
  /\ resp.status = 404
  /\ ~ AppExists(applications, resp.req.application_id)

UniqueTriple ==
  \A c1 \in configurations, c2 \in configurations :
    (/\ c1.application_id = c2.application_id
     /\ c1.key = c2.key
     /\ c1.environment = c2.environment) => c1 = c2

\* C5: no two configuration rows share (application_id, key, environment); a
\* valid create whose triple is taken, and a valid update that would give its
\* row the triple of another row, are answered 409 and leave the table as it was.
C5_TripleUnique ==
  /\ []UniqueTriple
  /\ [][/\ (/\ resp'.op = "cfg.create"
            /\ createConfigurationValidation(resp'.req.application_id, resp'.req.key,
                                             resp'.req.value, resp'.req.environment)
            /\ TripleTaken(configurations, resp'.req.application_id,
                           resp'.req.key.v, resp'.req.environment.v, 0))
           => /\ resp'.status = 409
              /\ configurations' = configurations
        /\ (/\ resp'.op = "cfg.update"
            /\ updateConfigurationValidation(resp'.req.id, resp'.req.key,
                                             resp'.req.value, resp'.req.environment)
            /\ \E c \in configurations : c.id = resp'.req.id
            /\ LET old == RowOf(configurations, resp'.req.id)
               IN TripleTaken(configurations, old.application_id,
                              COALESCE(toSql(resp'.req.key), Str(old.key)).v,
                              COALESCE(toSql(resp'.req.environment),
                                       Str(old.environment)).v,
                              old.id))
           => /\ resp'.status = 409
              /\ configurations' = configurations]_vars

\* an update was refused because another row holds the triple it asked for
C5_Witness ==
  /\ resp.op = "cfg.update"
  /\ resp.status = 409
  /\ Cardinality(configurations) = 2

(***************************************************************************)
(* Properties of racing creates (specification SpecRace).                  *)
(***************************************************************************)
\* the unique key a create request asks for was free when the racers arrived
\* (and, for a configuration, its application was there)
RaceKeyFree(r) ==
  IF r.kind = "app"
  THEN ~ NameTaken(RaceInitial.rows, r.req.name.v, 0)
  ELSE AppExists(RaceInitial.rows, r.req.application_id)

RowsWithKeyOf(r) ==
  IF r.kind = "app"
  THEN {a \in applications : a.name = r.req.name.v}
  ELSE {c \in configurations : /\ c.application_id = r.req.application_id
                               /\ c.key = r.req.key.v
                               /\ c.environment = r.req.environment.v}

\* C6: two create requests for the same free unique key (two POST /applications
\* with one name, two POST /configurations with one application_id, key and
\* environment), run at once: when both have answered, in every interleaving,
\* one answer is 201 and the other 409, and exactly one row holds the key.
C6_OneRacerWins ==
  \A i \in Racers, j \in Racers :
    (/\ i # j
     /\ racer[i].pc = "done" /\ racer[j].pc = "done"
     /\ racer[i].kind = racer[j].kind
     /\ racer[i].req = racer[j].req
     /\ RaceKeyFree(racer[i]))
    => /\ {racer[i].reply.status, racer[j].reply.status} = {201, 409}
       /\ Cardinality(RowsWithKeyOf(racer[i])) = 1

\* both passed the existence check before either inserted; the second racer's
\* INSERT won
C6_Witness ==
  /\ racer[1].pc = "done" /\ racer[2].pc = "done"
  /\ racer[1].kind = "cfg"
  /\ racer[1].req = racer[2].req
  /\ racer[1].reply.status = 409
  /\ racer[2].reply.status = 201

(***************************************************************************)
(* Properties of the document service seen through ConfigClient            *)
(* (specification SpecDoc).                                                *)
(***************************************************************************)
ConfigRowsOf(cfgs, id) == {c \in cfgs : c.application_id = id}
IsNotFound(call) ==
  /\ call.status = 404
  /\ ~ call.result.success
  /\ call.result.error \in {JStr("Application not found"),
                            JStr("Configuration not found")}

\* after a successful PUT of c: the same PUT again answers the same and leaves
\* both tables as they are, and a GET answers c
PutIsIdempotent ==
  (last.op = "updateConfiguration" /\ last.status = 200)
  => LET again == updateConfiguration(svcApplications, svcConfigurations,
                                      last.id, last.sent, "ok")
         got == getConfiguration(svcApplications, svcConfigurations, last.id, "ok")
     IN /\ again.result = last.result
        /\ again.status = last.status
        /\ again.apps = svcApplications
        /\ again.cfgs = svcConfigurations
        /\ got.result.success
        /\ Member(got.result.data, "config") = last.sent

\* a PUT of object c that reaches the service for an existing application
\* succeeds, echoes c and leaves exactly c stored for that application, the
\* rows of other applications untouched
PutReplaces ==
  (/\ last'.op = "updateConfiguration"
   /\ last'.status # 0
   /\ last'.sent.t = "object"
   /\ SvcHasApplication(svcApplications, last'.id))
  => /\ last'.status = 200
     /\ last'.result.success
     /\ Member(last'.result.data, "config") = last'.sent
     /\ ConfigRowsOf(svcConfigurations', last'.id)
          = {[application_id |-> last'.id, config |-> last'.sent]}
     /\ \A id \in DocIds \ {last'.id} :
          ConfigRowsOf(svcConfigurations', id) = ConfigRowsOf(svcConfigurations, id)
     /\ svcApplications' = svcApplications

ConfigurationHasApplication ==
  \A c \in svcConfigurations : SvcHasApplication(svcApplications, c.application_id)

\* a PUT that reaches the service for an id no application has fails and
\* leaves both tables as they are; with a well-formed body the answer is 404
PutUnknownIsNotFound ==
  (/\ last'.op = "updateConfiguration"
   /\ last'.status # 0
   /\ ~ SvcHasApplication(svcApplications, last'.id))
  => /\ ~ last'.result.success
     /\ svcConfigurations' = svcConfigurations
     /\ svcApplications' = svcApplications
     /\ ConfigRowsOf(svcConfigurations', last'.id) = {}
     /\ last'.sent.t = "object"
          => /\ last'.status = 404
             /\ last'.result.error = JStr("Application not found")

DeletedIsGone ==
  \A id \in deleted : /\ ~ SvcHasApplication(svcApplications, id)
                      /\ ~ SvcHasConfiguration(svcConfigurations, id)

\* a GET of a deleted application, or of its configuration, that reaches the
\* service answers NotFound
GetDeletedIsNotFound ==
  (/\ last'.op \in {"getApplication", "getConfiguration"}
   /\ last'.status # 0
   /\ last'.id \in deleted)
  => IsNotFound(last')

\* an id stays deleted until an application is created with it
StaysDeleted ==
  \A id \in deleted :
    id \in deleted' \/ (last'.op = "createApplication" /\ last'.id = id
                        /\ last'.status = 201)

StoredConfigIsObject == \A c \in svcConfigurations : c.config.t = "object"

\* the service answers a save whose parsed text is not an object: nothing is
\* stored and the call fails
NonObjectSaveNotStored ==
  \A s \in AwaitSlots :
    (/\ awaiting[s].call = "save" /\ awaiting[s].phase = "sent"
     /\ awaiting'[s].phase = "answered"
     /\ awaiting[s].sent.t # "object")
    => /\ svcConfigurations' = svcConfigurations
       /\ ~ awaiting'[s].result.success

\* the editor takes up such a save again: it records the error and keeps the
\* configuration and the text it had
NonObjectSaveRejected ==
  \A s \in AwaitSlots :
    (/\ awaiting[s].call = "save" /\ awaiting[s].phase = "answered"
     /\ awaiting'[s].call = "none"
     /\ awaiting[s].sent.t # "object")
    => /\ configDetail'.error = awaiting[s].result.error
       /\ Truthy(configDetail'.error)
       /\ configDetail'.configuration = configDetail.configuration
       /\ configDetail'.isEditing = configDetail.isEditing
       /\ configDetail'.editingConfig = configDetail.editingConfig

FailsValidation(r) ==
  CASE r.op = "app.create" ->
         ~ createApplicationValidation(r.req.name, r.req.description)
    [] r.op = "app.update" ->
         ~ updateApplicationValidation(r.req.id, r.req.name, r.req.description)
    [] r.op = "app.getById" -> ~ getApplicationValidation(r.req.id)
    [] r.op \in {"cfg.create", "cfg.create.await"} ->
         ~ createConfigurationValidation(r.req.application_id, r.req.key,
                                         r.req.value, r.req.environment)
    [] r.op = "cfg.update" ->
         ~ updateConfigurationValidation(r.req.id, r.req.key, r.req.value,
                                         r.req.environment)
    [] r.op = "cfg.getById" -> ~ getConfigurationValidation(r.req.id)
    [] r.op \in {"cfg.getByApplication", "cfg.getByApplication.await"} ->
         ~ getByApplicationValidation(r.req.applicationId, r.req.environment,
                                      r.req.page, r.req.limit)
    [] OTHER -> FALSE

CharsOf(s) ==
  CASE s = "a b" -> {"a", " ", "b"}
    [] s = "a-1" -> {"a", "-", "1"}
    [] s = "b_2" -> {"b", "_", "2"}
    [] s = LongName -> {"a"}
    [] OTHER -> {}
IdentifierChars == {"a", "b", "1", "2", "_", "-"}
MalformedName(name) ==
  /\ isString(name)
  /\ \/ Len(name.v) = 0
     \/ Len(name.v) > MaxNameLen
     \/ ~ (CharsOf(name.v) \subseteq IdentifierChars)

C12_MalformedNameRejected ==
  [][(resp'.op \in {"app.create", "app.update"} /\ MalformedName(resp'.req.name))
       => resp'.status = 400 /\ UNCHANGED applications]_vars

(***************************************************************************)
(* C13: GET /applications accepts only a page >= 1 and a limit in 1..100:  *)
(* a page below 1, a limit below 1 or above 100, and a value that is no    *)
(* integer are answered 400 and no statement is passed to query(); so the  *)
(* OFFSET is never negative and totalPages is never computed from limit 0. *)
(***************************************************************************)
PagingAccepted(page, limit) ==
  /\ optional(page, isInt(page, 1, NoMax))
  /\ optional(limit, isInt(limit, 1, 100))

C13_ListArgumentsChecked ==
  [][resp'.op \in {"app.getAll", "app.getAll.await"} =>
       /\ ~ PagingAccepted(resp'.req.page, resp'.req.limit) =>
            resp'.status = 400 /\ queried' = <<>>
       /\ resp'.code # "2201X"
       /\ resp'.status = 200 =>
            resp'.row.pagination.limit.t = "int" /\ resp'.row.pagination.limit.v >= 1]_vars

(***************************************************************************)
(* C14: a list request with page p >= 1 and limit L >= 1, over a set of N  *)
(* rows that no request changes between the handler's page query and its  *)
(* count query, is answered with total = N, totalPages = ceil(N / L), and   *)
(* min(L, max(0, N - (p - 1) * L)) rows, each of them one of the N and no   *)
(* row twice; so the last page holds N mod L rows, or L.                    *)
(***************************************************************************)
\* the rows the count query of the handler suspended in slot s counts
Counted(s) ==
  IF pending[s].op = "app.getAll" THEN applications
  ELSE Matching(configurations, applications, pending[s].req.applicationId,
                pending[s].req.environment)
PageSize(N, p, L) ==
  LET rest == IF N - (p - 1) * L > 0 THEN N - (p - 1) * L ELSE 0
  IN IF L < rest THEN L ELSE rest
PageIsRight(s, body) ==
  LET N == Cardinality(pending[s].seen)
      p == pending[s].page.v
      L == pending[s].limit.v
      tp == body.pagination.totalPages
  IN /\ body.pagination.total = N
     /\ body.pagination.page = JsInt(p) /\ body.pagination.limit = JsInt(L)
     /\ tp.t = "int" /\ tp.v * L >= N /\ (tp.v - 1) * L < N
     /\ Len(body.data) = PageSize(N, p, L)
     /\ \A i \in 1..Len(body.data) : body.data[i] \in pending[s].seen
     /\ \A i, j \in 1..Len(body.data) : i # j => body.data[i] # body.data[j]

C14_Pagination ==
  [][\A s \in 1..MaxPending :
       (/\ pending[s].busy /\ pending[s].op \in {"app.getAll", "cfg.getByApplication"}
        /\ pending[s].stage = "count" /\ ~ pending'[s].busy
        /\ pending[s].page.t = "int" /\ pending[s].page.v >= 1
        /\ pending[s].limit.t = "int" /\ pending[s].limit.v >= 1
        /\ pending[s].seen = Counted(s))
       => resp'.status = 200 /\ PageIsRight(s, resp'.row)]_vars

\* page 2 of two applications, one to the page
C14_Witness ==
  /\ resp.op = "app.getAll" /\ resp.status = 200
  /\ resp.row.pagination.page = JsInt(2) /\ resp.row.pagination.limit = JsInt(1)
  /\ resp.row.pagination.total = 2 /\ resp.row.pagination.totalPages = JsInt(2)
  /\ Len(resp.row.data) = 1
  /\ Cardinality(applications) = 2

(***************************************************************************)
(* C15: an application created with a valid name that no row holds is read *)
(* back by GET /applications/:id on the id the create returned: 200 with   *)
(* the same id, name and description, as long as no update of that row     *)
(* came in between.  In three parts: the 201 of a create carries the row   *)
(* as stored, with the name and description sent; a step that is no update *)
(* keeps id, name and description of every stored row; a getById of a      *)
(* stored id answers 200 with id, name and description of that row.        *)
(***************************************************************************)
SameApplication(a, b) ==
  a.id = b.id /\ a.name = b.name /\ a.description = b.description

CreateReturnsStoredRow ==
  (resp'.op = "app.create" /\ resp'.status = 201) =>
    /\ resp'.row \in applications'
    /\ resp'.row.id \notin {a.id : a \in applications}
    /\ resp'.row.name = resp'.req.name.v
    /\ resp'.row.description = toSql(resp'.req.description)

RowsKeptUnlessUpdated ==
  resp'.op # "app.update" =>
    \A a \in applications : \E b \in applications' : SameApplication(a, b)

GetByIdReturnsStoredRow ==
  (resp'.op = "app.getById" /\ \E a \in applications' : a.id = resp'.req.id) =>
    /\ resp'.status = 200
    /\ \A a \in applications' : a.id = resp'.req.id => SameApplication(resp'.row, a)

C15_CreateThenGetById ==
  [][CreateReturnsStoredRow /\ RowsKeptUnlessUpdated /\ GetByIdReturnsStoredRow]_vars

\* the second application created, with a description, was read back
C15_Witness ==
  /\ resp.op = "app.getById" /\ resp.status = 200
  /\ resp.row.id = 2 /\ resp.row.description = Str("d")
  /\ resp.row \in applications
  /\ Cardinality(applications) = 2

(***************************************************************************)
(* C16: every query() call gives its client back to the pool, whether the  *)
(* statement returns or throws: the clients out of the pool are exactly    *)
(* those of the calls inside try, never more than the pool's max of 20,    *)
(* and none when no call is in progress.                                   *)
(***************************************************************************)
C16_ClientsReleased ==
  /\ checkedOut = running
  /\ checkedOut <= PoolMax
  /\ (connecting = 0 /\ running = 0) => checkedOut = 0

\* a statement threw while all 20 clients were out and calls were queued: its
\* client is back in the pool
C16_Witness ==
  /\ lastQuery = "threw"
  /\ connecting > 0
  /\ running = PoolMax - 1 /\ checkedOut = PoolMax - 1

(***************************************************************************)
(* C17: every call of a ConfigClient method that has settled resolved to   *)
(* an ApiResponse: success true with the parsed body when the status is    *)
(* ok and the body parses, success true with data undefined on 204, and    *)
(* success false in every other case: a status that is not ok, a fetch     *)
(* that failed, a body that does not parse or was lost, an abort.          *)
(***************************************************************************)
ResponseOk(fetched) ==
  ~ fetched.threw /\ fetched.status >= 200 /\ fetched.status <= 299

C17_AlwaysAnApiResponse ==
  pendingCall.stage = "settled" =>
    LET f == pendingCall.fetched
        r == pendingCall.result
    IN /\ r.success \in BOOLEAN
       /\ IF ResponseOk(f) /\ f.status = 204
          THEN r.success /\ r.data = JUndefined
          ELSE IF ResponseOk(f) /\ JSONparse(f.body).ok
          THEN r.success /\ r.data = JSONparse(f.body).val
          ELSE ~ r.success

\* a deleteApplication answered 204 after some time
C17_Witness ==
  /\ pendingCall.stage = "settled" /\ pendingCall.method = "deleteApplication"
  /\ pendingCall.fetched.status = 204 /\ ~ pendingCall.fetched.threw
  /\ pendingCall.result = Success(JUndefined)
  /\ elapsed > 0

(***************************************************************************)
(* C18: whenever a call resolves to success false, error is a string that  *)
(* is not empty; and when the response had a status that is not ok and a   *)
(* JSON body with the service's message under "detail", error is that      *)
(* message.                                                                *)
(***************************************************************************)
C18_ErrorIsAMessage ==
  (pendingCall.stage = "settled" /\ ~ pendingCall.result.success) =>
    LET f == pendingCall.fetched
        error == pendingCall.result.error
    IN /\ error.t = "string" /\ error.v[1] # ""
       /\ (~ f.threw /\ ~ ResponseOk(f) /\ JSONparse(f.body).ok
           /\ HasMember(JSONparse(f.body).val, "detail")
           /\ Member(JSONparse(f.body).val, "detail").t = "string")
          => error = Member(JSONparse(f.body).val, "detail")

(***************************************************************************)
(* C19: a request still awaited when the timeout has passed since its      *)
(* start is aborted there and then: time does not move on with the request *)
(* still pending, so no request is pending for longer than the timeout.    *)
(***************************************************************************)
C19_AbortedAtTimeout ==
  [][(pendingCall.stage \in {"fetching", "body"} /\ elapsed >= timeout)
       => elapsed' = elapsed]_vars

(***************************************************************************)
(* C20: a CreateAppForm has at most one createApplication request in       *)
(* flight, and while one is in flight loadingState is 'loading'; a         *)
(* submitForm that finds loadingState 'loading' returns without            *)
(* validating, without calling the API and without changing the element.   *)
(***************************************************************************)
OneCreateInFlight ==
  /\ creating <= 1
  /\ creating = 1 => createForm.loadingState = "loading"

SubmitWhileLoadingDoesNothing ==
  (lastEvent'.handler = "submitForm" /\ lastEvent'.during = "loading")
    => UNCHANGED <<createForm, creating>>

C20_NoDoubleSubmission ==
  []OneCreateInFlight /\ [][SubmitWhileLoadingDoesNothing]_vars

\* submitForm was called again while the request for "a-1" was in flight
C20_Witness ==
  /\ lastEvent = [handler |-> "submitForm", during |-> "loading", emitted |-> <<>>]
  /\ creating = 1
  /\ createForm.loadingState = "loading"
  /\ createForm.formData.name = <<"a", "-", "1">>

(***************************************************************************)
(* C21: a submitForm that finds a name that is empty or only whitespace, a *)
(* name with a character outside [a-zA-Z0-9_-], or a description that is   *)
(* given and only whitespace, flags each such field with a validation      *)
(* error, sends no request, emits no event and leaves loadingState as it   *)
(* was.                                                                    *)
(***************************************************************************)
OnlySpaces(chars) == \A i \in 1..Len(chars) : chars[i] = " "
NameRefused(name) ==
  OnlySpaces(name) \/ \E i \in 1..Len(name) : name[i] \notin IdentifierChars \cup {"d"}
DescriptionRefused(description) == description # <<>> /\ OnlySpaces(description)

LoadsStarted ==
  Cardinality({s \in AwaitSlots : awaiting[s].call = "none" /\ awaiting'[s].call = "load"})

C22_OneLoadPerChange ==
  [][/\ LoadsStarted = IF /\ configDetail'.applicationId # configDetail.applicationId
                          /\ configDetail'.applicationId # ""
                       THEN 1 ELSE 0
     /\ (configDetail'.applicationId = "" /\ configDetail.applicationId # "")
          => /\ configDetail'.loadingState = configDetail.loadingState
             /\ configDetail'.configuration = configDetail.configuration]_vars

(***************************************************************************)
(* C23: whenever ConfigApp has a selected application, exactly one list    *)
(* item is rendered with class "selected", and it is the item of that      *)
(* application; handling "app-created" adds exactly one application to the *)
(* list, selects it and hides the create form.                             *)
(***************************************************************************)
SelectedItems == {i \in 1..Len(configApp.items) : configApp.items[i].selected}

OneSelectedItem ==
  configApp.selectedApp # NoApp
  => /\ Cardinality(SelectedItems) = 1
     /\ \A i \in SelectedItems : configApp.items[i].id = configApp.selectedApp.id

CreatedIsAddedAndSelected ==
  appIds' # appIds
  => /\ Len(configApp'.applications) = Len(configApp.applications) + 1
     /\ configApp'.selectedApp.id \in appIds' \ appIds
     /\ configApp'.applications[Len(configApp'.applications)] = configApp'.selectedApp
     /\ ~ configApp'.showCreateForm
     /\ ~ configApp'.formShown

ClickSelectsTheItem ==
  (appIds' = appIds /\ configApp'.selectedApp # configApp.selectedApp)
  => \E i \in 1..Len(configApp.items) : configApp.items[i].id = configApp'.selectedApp.id

C23_OneSelectedItem ==
  /\ []OneSelectedItem
  /\ [][CreatedIsAddedAndSelected /\ ClickSelectsTheItem]_vars

(***************************************************************************)
(* C24: every invocation of a controller handler sends exactly one         *)
(* response.  A handler step either parks the invocation at an await       *)
(* without a response, or sends one response with an HTTP status and ends  *)
(* the invocation; an invocation that ends has sent its response in that   *)
(* step; and a step whose query failed sends the error response at once,   *)
(* having issued that query and no other.                                  *)
(***************************************************************************)
HandlerOps == {"app.create", "app.update", "app.getById", "app.getAll",
               "cfg.create", "cfg.update", "cfg.getById", "cfg.getByApplication"}
HttpStatuses == {200, 201, 400, 404, 409, 500}

Parked == {s \in 1..MaxPending : pending'[s].busy /\ pending'[s] # pending[s]}
Ended == {s \in 1..MaxPending : pending[s].busy /\ ~ pending'[s].busy}

OneResponsePerInvocation ==
  /\ resp'.status = 0
       => /\ Cardinality(Parked) = 1
          /\ Ended = {}
          /\ resp'.code = ""
          /\ \A s \in Parked : pending'[s].req = resp'.req
  /\ resp'.status # 0
       => /\ resp'.op \in HandlerOps
          /\ resp'.status \in HttpStatuses
          /\ Parked = {}
          /\ Cardinality(Ended) <= 1
          /\ \A s \in Ended : pending[s].op = resp'.op /\ pending[s].req = resp'.req
  /\ resp'.code # ""
       => /\ resp'.status \in {404, 409, 500}
          /\ Len(queried') = 1

\* steps that are no handler's: the clock, and a DELETE by an SQL client
OtherSteps == {"tick", "sql.delete"}

C24_ExactlyOneResponse ==
  [][resp'.op \notin OtherSteps => OneResponsePerInvocation]_vars

\* a list request whose SELECT the store refused was answered 500, and no
\* handler is left waiting
C24_Witness ==
  /\ resp.op = "app.getAll"
  /\ resp.code # ""
  /\ resp.status = 500
  /\ \A s \in 1..MaxPending : ~ pending[s].busy

(***************************************************************************)
(* C25: the configuration ConfigDetail displays changes only when a load   *)
(* or a save that succeeded settles, and then to the data of that          *)
(* response.  A save of text that is not valid JSON sends no request and   *)
(* sets the error "Invalid JSON format".                                   *)
(***************************************************************************)
SettledWithSuccess(call) ==
  \E s \in AwaitSlots :
    /\ awaiting[s].call = call /\ awaiting[s].phase = "answered"
    /\ awaiting'[s] = NotAwaiting
    /\ awaiting[s].result.success
    /\ configDetail'.configuration = awaiting[s].result.data

SaveSent ==
  \E s \in AwaitSlots : awaiting[s].call = "none" /\ awaiting'[s].call = "save"

InvalidJsonRefused ==
  /\ configDetail'.error = JStr("Invalid JSON format")
  /\ configDetail.error # JStr("Invalid JSON format")

C25_ConfigurationChangesOnSuccess ==
  [][/\ configDetail'.configuration # configDetail.configuration
          => SettledWithSuccess("load") \/ SettledWithSuccess("save")
     /\ SaveSent => JSONparse(configDetail.editingConfig).ok
     /\ InvalidJsonRefused
          => /\ configDetail.view = "edit"
             /\ ~ JSONparse(configDetail.editingConfig).ok
             /\ awaiting' = awaiting]_vars

\* a save of invalid JSON was refused while an earlier configuration stays loaded
C25_Witness ==
  /\ configDetail.error = JStr("Invalid JSON format")
  /\ Truthy(configDetail.configuration)
  /\ configDetail.isEditing
  /\ \A s \in AwaitSlots : awaiting[s].call = "none"

(***************************************************************************)
(* C26: when the createApplication call of a submission resolves, the form *)
(* leaves "loading".  On success it emits "app-created" once, with the     *)
(* created application, and is reset: empty name and description, no       *)
(* errors, loadingState "idle".  On failure loadingState is "error", the   *)
(* API error is stored, the entered data is kept and nothing is emitted.   *)
(***************************************************************************)
SettledAs(result) ==
  IF result.success
  THEN /\ lastEvent'.emitted = <<Emitted("app-created", result.data)>>
       /\ createForm'.formData = EmptyForm
       /\ createForm'.validationErrors = {}
       /\ createForm'.error = JNull
       /\ createForm'.loadingState = "idle"
  ELSE /\ lastEvent'.emitted = <<>>
       /\ createForm'.loadingState = "error"
       /\ createForm'.error = result.error
       /\ createForm'.view.error = result.error
       /\ createForm'.formData = createForm.formData

C26_SubmissionSettles ==
  [][creating' < creating
       => /\ lastEvent'.during = "loading"
          /\ createForm'.loadingState # "loading"
          /\ ~ createForm'.view.disabled
          /\ \E result \in FormResults : SettledAs(result)]_vars

\* a submission failed: the error is shown and the entered name is still there
C26_Witness ==
  /\ lastEvent.handler = "settled"
  /\ lastEvent.emitted = <<>>
  /\ createForm.loadingState = "error"
  /\ createForm.error = JStr("Failed to fetch")
  /\ createForm.formData.name = <<"a", "-", "1">>
  /\ creating = 0

(***************************************************************************)
(* C27: once every response ConfigDetail was waiting for has arrived, in   *)
(* whatever order, a component whose load succeeded shows the              *)
(* configuration of its current application-id: the application_id of its *)
(* configuration equals the attribute.                                     *)
(***************************************************************************)
AllArrived == \A s \in AwaitSlots : awaiting[s].call = "none"

C27_ShowsCurrentApplication ==
  (/\ configDetail.connected
   /\ configDetail.applicationId # ""
   /\ AllArrived
   /\ configDetail.loadingState = "success")
  => Member(configDetail.configuration, "application_id")
       = JStr(configDetail.applicationId)

(***************************************************************************)
(* C28: ConfigDetail never saves to one application an edit buffer started *)
(* from another application's configuration.  A change of application-id   *)
(* in edit mode leaves edit mode and discards the buffer, and a save is    *)
(* sent only to the application whose configuration the element holds.     *)
(***************************************************************************)
EditDroppedOnChange ==
  (configDetail.isEditing /\ configDetail'.applicationId # configDetail.applicationId)
  => /\ ~ configDetail'.isEditing
     /\ configDetail'.editingConfig = <<>>

SaveGoesToEditedApplication ==
  \A s \in AwaitSlots :
    (awaiting[s].call = "none" /\ awaiting'[s].call = "save")
    => /\ awaiting'[s].id = configDetail.applicationId
       /\ Member(configDetail.configuration, "application_id") = JStr(awaiting'[s].id)

C28_NoSaveAcrossApplications ==
  [][EditDroppedOnChange /\ SaveGoesToEditedApplication]_vars

(***************************************************************************)
(* C29: the data and the total of one list response describe a single      *)
(* state of the table, also when other requests run between the handler's  *)
(* two queries: there is a table T, made of rows the handler's queries     *)
(* saw, such that total is the number of rows of T and data is page p of   *)
(* T.                                                                      *)
(***************************************************************************)
DescribesTable(T, s, body) ==
  LET N == Cardinality(T)
      p == pending[s].page.v
      L == pending[s].limit.v
  IN /\ body.pagination.total = N
     /\ Len(body.data) = PageSize(N, p, L)
     /\ \A i \in 1..Len(body.data) : body.data[i] \in T

C29_OneTableState ==
  [][\A s \in 1..MaxPending :
       (/\ pending[s].busy /\ pending[s].op \in {"app.getAll", "cfg.getByApplication"}
        /\ pending[s].stage = "count" /\ ~ pending'[s].busy
        /\ pending[s].page.t = "int" /\ pending[s].page.v >= 1
        /\ pending[s].limit.t = "int" /\ pending[s].limit.v >= 1
        /\ resp'.status = 200)
       => \E T \in SUBSET (pending[s].seen \cup Counted(s)) :
            DescribesTable(T, s, resp'.row)]_vars

(***************************************************************************)
(* C30: a failed save in ConfigDetail (invalid JSON, or an error from the  *)
(* API) is not a dead end: the page it leaves offers a control of the      *)
(* component, or a response is still to arrive, so that the configuration  *)
(* or the editor can be displayed again without a change of                *)
(* application-id.                                                         *)
(***************************************************************************)
SaveFailed ==
  \/ /\ configDetail.view = "edit"
     /\ awaiting' = awaiting
     /\ configDetail'.error # configDetail.error
  \/ \E s \in AwaitSlots :
       /\ awaiting[s].call = "save" /\ awaiting[s].phase = "answered"
       /\ awaiting'[s] = NotAwaiting
       /\ ~ awaiting[s].result.success

C30_FailedSaveIsNoDeadEnd ==
  [][SaveFailed => \/ Controls(configDetail') # {}
                   \/ \E s \in AwaitSlots : awaiting'[s].call # "none"]_vars

====
